---------------------------- MODULE Spec2Model ----------------------------
(***************************************************************************)
(* IMAGEHARDER: the sandboxed command-line front-end (src/main.rs), the    *)
(* per-format decode pipeline (src/lib.rs, src/formats/*.rs) and the video *)
(* container validators (src/lib.rs).                                      *)
(*                                                                         *)
(* Three specifications share the module:                                  *)
(*   SpecCli    one CLI invocation on a file path: parent, cloned child,   *)
(*              result pipe (FairSpecCli adds weak fairness of every step) *)
(*   SpecDecode one call of a library decoder on a drawn input             *)
(*   SpecVideo  one call of validate_video_container on a drawn input      *)
(* Each specification keeps the variables of the other two at their idle   *)
(* values.                                                                 *)
(***************************************************************************)
EXTENDS Integers, Sequences, FiniteSets, TLC

VARIABLES
    \* ---- one CLI invocation (main.rs) ----
    ext,            \* extension of the path argument
    fileOutcome,    \* what opening, reading and decoding this file yields
    parentPc,       \* position of main()
    childPc,        \* position of child_process()
    writers,        \* processes holding the pipe's write end open
    pipeBuf,        \* bytes in the pipe, not yet read
    pipeWritten,    \* every byte ever written to the pipe
    resultBuf,      \* the parent's result_buf
    landlock,       \* the filesystem restriction is in force in the child
    seccomp,        \* the allow-list loaded in the child, or NoFilter
    installFailed,  \* which restriction failed to install, or "none"
    decodeInvoked,  \* decode_image was entered
    childStatus,    \* the child's wait status, or NoStatus
    stdout,         \* lines printed to standard output (both processes)
    stderr,         \* lines printed to standard error (both processes)
    parentExit,     \* exit code of the CLI process, or NoExit
    \* ---- one library decode call (lib.rs, formats/) ----
    dec,
    \* ---- one container validation (lib.rs) ----
    vid

cliVars == <<ext, fileOutcome, parentPc, childPc, writers, pipeBuf, pipeWritten,
             resultBuf, landlock, seccomp, installFailed, decodeInvoked,
             childStatus, stdout, stderr, parentExit>>

vars == <<cliVars, dec, vid>>

Idle == [pc |-> "idle"]

----------------------------------------------------------------------------
(* Bounds of the model *)

\* decoded lengths run over 0..MaxDecodedLen
MaxDecodedLen == 12

\* the leading bytes of an input that the model keeps
HeadLen == 24

\* the longest run of frames (packets) an audio stream of the model yields
MaxFrames == 2

\* the most audio tracks a container of the model carries after its leading tracks
MaxFill == 8

\* the most top-level chunks of an AVI file of the model
MaxChunks == 3

\* the most leading tracks of an MP4 file of the model
MaxLead == 2
MaxExifTail == 3
MaxReaderLen == 5
MaxReads == 3

----------------------------------------------------------------------------
(* Decimal text: usize::to_string and its reading back *)

Digits == "0123456789"

DigitChar(d) == SubSeq(Digits, d + 1, d + 1)

RECURSIVE ToDecimal(_)
\* usize::to_string(): no sign, no leading zeros, "0" for zero
ToDecimal(n) ==
    IF n < 10 THEN DigitChar(n)
    ELSE ToDecimal(n \div 10) \o DigitChar(n % 10)

DigitVal(c) == CHOOSE d \in 0..9 : DigitChar(d) = c

IsDecimal(s) ==
    /\ Len(s) > 0
    /\ \A i \in 1..Len(s) : \E d \in 0..9 : SubSeq(s, i, i) = DigitChar(d)

RECURSIVE ParseDecimal(_)
\* the number a decimal text denotes
ParseDecimal(s) ==
    IF Len(s) = 0 THEN 0
    ELSE 10 * ParseDecimal(SubSeq(s, 1, Len(s) - 1)) + DigitVal(SubSeq(s, Len(s), Len(s)))

----------------------------------------------------------------------------
(* The error type and its Display text (thiserror attributes) *)

ErrorPrefix(variant) ==
    CASE variant = "PngError"             -> "PNG decoding failed: "
      [] variant = "JpegError"            -> "JPEG decoding failed: "
      [] variant = "GifError"             -> "GIF decoding failed: "
      [] variant = "SvgError"             -> "SVG decoding failed: "
      [] variant = "WebPError"            -> "WebP decoding failed: "
      [] variant = "HeifError"            -> "HEIF/HEIC decoding failed: "
      [] variant = "AvifError"            -> "AVIF decoding failed: "
      [] variant = "JxlError"             -> "JPEG XL decoding failed: "
      [] variant = "TiffError"            -> "TIFF decoding failed: "
      [] variant = "ExrError"             -> "OpenEXR decoding failed: "
      [] variant = "AudioError"           -> "Audio decoding failed: "
      [] variant = "Mp3Error"             -> "MP3 decoding failed: "
      [] variant = "VorbisError"          -> "Vorbis decoding failed: "
      [] variant = "FlacError"            -> "FLAC decoding failed: "
      [] variant = "VideoError"           -> "Video decoding failed: "
      [] variant = "VideoContainerError"  -> "Video container parsing failed: "
      [] variant = "VideoValidationError" -> "Video validation failed: "
      [] variant = "IoError"              -> "IO error: "
      [] variant = "NullPointer"          -> "Null pointer encountered"

\* an error value: the enum variant and the string it carries
Err(variant, msg) == [ok |-> FALSE, variant |-> variant, msg |-> msg]

Display(e) == ErrorPrefix(e.variant) \o e.msg


----------------------------------------------------------------------------
(* The CLI: inputs *)

Extensions == {"png", "jpg", "jpeg", "svg", "mp4", "txt", ""}

Ok(n) == [ok |-> TRUE, len |-> n]

DecodedLens == 0..MaxDecodedLen

\* decode_image's fall-through arm
UnsupportedFileType == Err("JpegError", "Unsupported file type")

\* what the library decoder the extension selects can return on a file's bytes,
\* with the lines the decoder itself prints to standard error meanwhile
DecoderOutcomes(e) ==
    CASE e = "png" ->
            {[res |-> Ok(n), diag |-> <<>>] : n \in DecodedLens}
            \cup {[res |-> Err("NullPointer", ""), diag |-> <<>>]}
            \cup {[res |-> Err("PngError", "PNG decoding failed"),
                   diag |-> <<"PNG error: " \o m>>] :
                      m \in {"Not a PNG file", "Read error"}}
      [] e \in {"jpg", "jpeg"} ->
            {[res |-> Ok(n), diag |-> <<>>] : n \in DecodedLens}
            \cup {[res |-> Err("JpegError", m), diag |-> <<>>] :
                      m \in {"JPEG decoding failed", "Image dimensions exceed limits"}}
      [] e = "svg" ->
            {[res |-> Ok(n), diag |-> <<>>] : n \in DecodedLens}
            \cup {[res |-> Err("SvgError", m), diag |-> <<>>] :
                      m \in {"invalid utf-8 sequence", "Failed to parse SVG",
                             "Failed to create pixmap", "Failed to encode PNG"}}
      [] e = "mp4" ->
            {[res |-> Ok(n), diag |-> <<>>] : n \in DecodedLens}
            \cup {[res |-> Err("VideoValidationError", m), diag |-> <<>>] :
                      m \in {"Video file too large", "Video file too small",
                             "Unknown or unsupported video container format",
                             "No video tracks found in MP4"}}
            \cup {[res |-> Err("VideoContainerError", "MP4 parsing failed"), diag |-> <<>>]}
      [] OTHER -> {[res |-> UnsupportedFileType, diag |-> <<>>]}

\* a file: whether File::open and read_to_end succeed, and what the decoder
\* makes of its bytes
FileOutcomes(e) ==
    {[io |-> ioOk, dec |-> d] : ioOk \in BOOLEAN, d \in DecoderOutcomes(e)}

\* decode_image(image_path): open, read to end, dispatch on the extension,
\* map the decoded buffer to its length
decode_image(e, f) ==
    IF ~f.io THEN Err("IoError", "No such file or directory")
    ELSE IF e \in {"png", "jpg", "jpeg", "svg", "mp4"} THEN f.dec.res
    ELSE UnsupportedFileType

\* the lines the decoder prints while decode_image runs
decode_diag(e, f) ==
    IF f.io /\ e \in {"png", "jpg", "jpeg", "svg", "mp4"} THEN f.dec.diag ELSE <<>>

----------------------------------------------------------------------------
(* The CLI: sandbox *)

NoFilter == [loaded |-> FALSE, allow |-> {}]
Loaded(allow) == [loaded |-> TRUE, allow |-> allow]
NoStatus == [kind |-> "none"]
NoExit == -1

Exited(code) == [kind |-> "Exited", code |-> code]
Signaled == [kind |-> "Signaled"]

\* apply_seccomp_filter
BaseFilter == {"read", "write", "open", "close", "brk", "mmap", "exit_group"}

\* apply_svg_seccomp_filter
SvgFilter == BaseFilter \cup {"munmap", "mremap"}

\* apply_video_seccomp_filter
VideoFilter == SvgFilter \cup {"mprotect", "futex", "poll", "sched_yield"}

\* child_process: the filter the extension selects
SelectFilter(e) ==
    CASE e = "svg" -> SvgFilter
      [] e = "mp4" -> VideoFilter
      [] OTHER     -> BaseFilter

\* system calls a decoder may attempt
Syscalls == VideoFilter \cup {"openat", "socket", "execve"}

\* a panic (unwrap on Err) ends the process abnormally: exit code 101, or an
\* abort signal when the panic cannot unwind
PanicStatuses == {Exited(101), Signaled}

SuccessLine(text) == "Successfully decoded image with size: " \o text
FailureLine == "Failed to decode image"
ChildFailureLine(e) == "Failed to decode image: " \o Display(e)
PanicLine == "thread 'main' panicked"

----------------------------------------------------------------------------
(* The CLI: the parent, main() with one path argument *)

\* nix::unistd::pipe(): both ends are open in the parent
ParentPipe ==
    /\ parentPc = "start"
    /\ parentPc' = "clone"
    /\ writers' = {"parent"}
    /\ UNCHANGED <<ext, fileOutcome, childPc, pipeBuf, pipeWritten, resultBuf, landlock,
                   seccomp, installFailed, decodeInvoked, childStatus, stdout, stderr,
                   parentExit, dec, vid>>

\* clone(...).unwrap(): the child gets copies of both pipe ends; the parent
\* keeps its own write_pipe open until main returns
ParentClone ==
    /\ parentPc = "clone"
    /\ \E cloned \in BOOLEAN :
          IF cloned
          THEN /\ parentPc' = "wait"
               /\ childPc' = "landlock"
               /\ writers' = writers \cup {"child"}
               /\ UNCHANGED <<stderr, parentExit>>
          ELSE /\ parentPc' = "done"
               /\ stderr' = Append(stderr, PanicLine)
               /\ parentExit' = 101
               /\ writers' = writers \ {"parent"}
               /\ UNCHANGED childPc
    /\ UNCHANGED <<ext, fileOutcome, pipeBuf, pipeWritten, resultBuf, landlock, seccomp,
                   installFailed, decodeInvoked, childStatus, stdout, dec, vid>>

\* waitpid(child_pid, None).unwrap() and the match on its status
ParentWaitpid ==
    /\ parentPc = "wait"
    /\ childStatus # NoStatus
    /\ parentPc' = IF childStatus = Exited(0) THEN "read" ELSE "fail"
    /\ UNCHANGED <<ext, fileOutcome, childPc, writers, pipeBuf, pipeWritten, resultBuf,
                   landlock, seccomp, installFailed, decodeInvoked, childStatus, stdout,
                   stderr, parentExit, dec, vid>>

\* read_pipe.read_to_string(&mut result_buf): read() returns the bytes in the
\* pipe, returns 0 (end of file) once the pipe is empty and no process holds its
\* write end, and blocks while the pipe is empty and a write end is open. At end
\* of file the success line is printed and main returns.
ParentRead ==
    /\ parentPc = "read"
    /\ ~(pipeBuf = "" /\ writers # {})
    /\ IF pipeBuf # ""
       THEN /\ resultBuf' = resultBuf \o pipeBuf
            /\ pipeBuf' = ""
            /\ UNCHANGED <<parentPc, stdout, parentExit, writers>>
       ELSE /\ stdout' = Append(stdout, SuccessLine(resultBuf))
            /\ parentPc' = "done"
            /\ parentExit' = 0
            /\ UNCHANGED <<resultBuf, pipeBuf, writers>>
    /\ UNCHANGED <<ext, fileOutcome, childPc, pipeWritten, landlock, seccomp,
                   installFailed, decodeInvoked, childStatus, stderr, dec, vid>>

\* the `_` arm: eprintln!("Failed to decode image"), then main returns
ParentFail ==
    /\ parentPc = "fail"
    /\ stderr' = Append(stderr, FailureLine)
    /\ parentPc' = "done"
    /\ parentExit' = 0
    /\ writers' = writers \ {"parent"}
    /\ UNCHANGED <<ext, fileOutcome, childPc, pipeBuf, pipeWritten, resultBuf, landlock,
                   seccomp, installFailed, decodeInvoked, childStatus, stdout, dec, vid>>

----------------------------------------------------------------------------
(* The CLI: the child, child_process() *)

\* the child ends: its descriptors close and its status becomes available
ChildEnds(status) ==
    /\ childPc' = "exited"
    /\ childStatus' = status
    /\ writers' = writers \ {"child"}

\* apply_landlock_rules(image_path).unwrap()
ChildLandlock ==
    /\ childPc = "landlock"
    /\ \E enforced \in BOOLEAN :
          IF enforced
          THEN /\ landlock' = TRUE
               /\ childPc' = "seccomp"
               /\ UNCHANGED <<installFailed, childStatus, writers, stderr>>
          ELSE /\ installFailed' = "landlock"
               /\ stderr' = Append(stderr, PanicLine)
               /\ \E st \in PanicStatuses : ChildEnds(st)
               /\ UNCHANGED landlock
    /\ UNCHANGED <<ext, fileOutcome, parentPc, pipeBuf, pipeWritten, resultBuf, seccomp,
                   decodeInvoked, stdout, parentExit, dec, vid>>

\* ChildSeccomp with the result of the load dropped instead of unwrapped: the
\* child goes on to decode without a filter
ChildSeccomp_IgnoresFailure ==
    /\ childPc = "seccomp"
    /\ \E loaded \in BOOLEAN :
          /\ seccomp' = IF loaded THEN Loaded(SelectFilter(ext)) ELSE seccomp
          /\ installFailed' = IF loaded THEN installFailed ELSE "seccomp"
          /\ childPc' = "decode"
          /\ UNCHANGED <<childStatus, writers, stderr>>
    /\ UNCHANGED <<ext, fileOutcome, parentPc, pipeBuf, pipeWritten, resultBuf, landlock,
                   decodeInvoked, stdout, parentExit, dec, vid>>

\* the match on file_extension, then seccomp_filter.unwrap()
ChildSeccomp ==
    /\ childPc = "seccomp"
    /\ \E loaded \in BOOLEAN :
          IF loaded
          THEN /\ seccomp' = Loaded(SelectFilter(ext))
               /\ childPc' = "decode"
               /\ UNCHANGED <<installFailed, childStatus, writers, stderr>>
          ELSE /\ installFailed' = "seccomp"
               /\ stderr' = Append(stderr, PanicLine)
               /\ \E st \in PanicStatuses : ChildEnds(st)
               /\ UNCHANGED seccomp
    /\ UNCHANGED <<ext, fileOutcome, parentPc, pipeBuf, pipeWritten, resultBuf, landlock,
                   decodeInvoked, stdout, parentExit, dec, vid>>

\* decode_image(image_path) runs to its result
ChildDecode ==
    /\ childPc = "decode"
    /\ decodeInvoked' = TRUE
    /\ stderr' = stderr \o decode_diag(ext, fileOutcome)
    /\ childPc' = "report"
    /\ UNCHANGED <<ext, fileOutcome, parentPc, writers, pipeBuf, pipeWritten, resultBuf,
                   landlock, seccomp, installFailed, childStatus, stdout, parentExit,
                   dec, vid>>

\* ScmpAction::KillProcess: while decode_image runs, a system call outside the
\* loaded allow-list ends the child
ChildKilled ==
    /\ childPc = "decode"
    /\ seccomp.loaded
    /\ \E s \in Syscalls \ seccomp.allow :
          /\ decodeInvoked' = TRUE
          /\ ChildEnds(Signaled)
    /\ UNCHANGED <<ext, fileOutcome, parentPc, pipeBuf, pipeWritten, resultBuf, landlock,
                   seccomp, installFailed, stdout, stderr, parentExit, dec, vid>>

\* ChildReport with the write moved out of the Ok arm: the length of an empty
\* result is written on Err as well
ChildReport_WritesOnError ==
    /\ childPc = "report"
    /\ LET r == decode_image(ext, fileOutcome)
           n == IF r.ok THEN r.len ELSE 0 IN
          /\ pipeBuf' = pipeBuf \o ToDecimal(n)
          /\ pipeWritten' = pipeWritten \o ToDecimal(n)
          /\ stderr' = IF r.ok THEN stderr ELSE Append(stderr, ChildFailureLine(r))
    /\ childPc' = "exit"
    /\ UNCHANGED <<ext, fileOutcome, parentPc, writers, resultBuf, landlock, seccomp,
                   installFailed, decodeInvoked, childStatus, stdout, parentExit, dec, vid>>

\* the match on decode_image's result: Ok writes the decimal length to the
\* pipe, Err prints the error to standard error
ChildReport ==
    /\ childPc = "report"
    /\ LET r == decode_image(ext, fileOutcome) IN
          IF r.ok
          THEN /\ pipeBuf' = pipeBuf \o ToDecimal(r.len)
               /\ pipeWritten' = pipeWritten \o ToDecimal(r.len)
               /\ UNCHANGED stderr
          ELSE /\ stderr' = Append(stderr, ChildFailureLine(r))
               /\ UNCHANGED <<pipeBuf, pipeWritten>>
    /\ childPc' = "exit"
    /\ UNCHANGED <<ext, fileOutcome, parentPc, writers, resultBuf, landlock, seccomp,
                   installFailed, decodeInvoked, childStatus, stdout, parentExit, dec, vid>>

\* child_process returns 0 or 1, which becomes the child's exit status
ChildExit ==
    /\ childPc = "exit"
    /\ ChildEnds(Exited(IF decode_image(ext, fileOutcome).ok THEN 0 ELSE 1))
    /\ UNCHANGED <<ext, fileOutcome, parentPc, pipeBuf, pipeWritten, resultBuf, landlock,
                   seccomp, installFailed, decodeInvoked, stdout, stderr, parentExit,
                   dec, vid>>

----------------------------------------------------------------------------
(* The CLI: specification *)

InitCli ==
    /\ ext \in Extensions
    /\ fileOutcome \in FileOutcomes(ext)
    /\ parentPc = "start"
    /\ childPc = "none"
    /\ writers = {}
    /\ pipeBuf = ""
    /\ pipeWritten = ""
    /\ resultBuf = ""
    /\ landlock = FALSE
    /\ seccomp = NoFilter
    /\ installFailed = "none"
    /\ decodeInvoked = FALSE
    /\ childStatus = NoStatus
    /\ stdout = <<>>
    /\ stderr = <<>>
    /\ parentExit = NoExit
    /\ dec = Idle
    /\ vid = Idle

NextCli ==
    \/ ParentPipe
    \/ ParentClone
    \/ ParentWaitpid
    \/ ParentRead
    \/ ParentFail
    \/ ChildLandlock
    \/ ChildSeccomp
    \/ ChildDecode
    \/ ChildKilled
    \/ ChildReport
    \/ ChildExit

SpecCli == InitCli /\ [][NextCli]_vars

\* both processes are scheduled: a step that stays possible is eventually taken
FairSpecCli == InitCli /\ [][NextCli]_vars /\ WF_vars(NextCli)

----------------------------------------------------------------------------
(* The CLI: properties *)

DecodeResult == decode_image(ext, fileOutcome)

\* the child ran decode_image to its end and reported the result
ChildReported == childPc = "exited" /\ decodeInvoked /\ childStatus.kind = "Exited"

\* C1: once the child has written the decimal length and exited with status
\* 0, the parent eventually reads that length, prints the success line and
\* terminates; its pipe read never blocks forever.
C1_ParentObtainsLength ==
    (childStatus = Exited(0) /\ pipeWritten # "")
        ~> (parentPc = "done" /\ stdout = <<SuccessLine(pipeWritten)>>)

\* C2: the child writes to the result pipe if and only if decode succeeded:
\* on success exactly the decimal length of the decoded bytes, and exit status
\* 0; on a decode error nothing, and a non-zero exit status.
C2_PipeWrittenIffDecodeOk ==
    /\ pipeWritten # "" =>
          /\ DecodeResult.ok
          /\ IsDecimal(pipeWritten)
          /\ ParseDecimal(pipeWritten) = DecodeResult.len
          /\ (Len(pipeWritten) > 1 => SubSeq(pipeWritten, 1, 1) # "0")
    /\ ChildReported =>
          IF DecodeResult.ok
          THEN childStatus = Exited(0) /\ pipeWritten # ""
          ELSE childStatus # Exited(0) /\ pipeWritten = ""
    /\ childStatus = Exited(0) => DecodeResult.ok /\ pipeWritten # ""

\* C2 witness: a decode of 10 bytes was reported through the pipe
C2_Witness ==
    /\ ChildReported
    /\ DecodeResult.ok
    /\ pipeWritten = "10"

\* C3: for every input that fails to decode, all that the invocation emits
\* (both processes, both streams) is the one generic line, with nothing
\* derived from the input.
C3_FailureOutputGeneric ==
    (parentPc = "done" /\ ChildReported /\ ~DecodeResult.ok)
        => (stdout = <<>> /\ stderr = <<FailureLine>>)

\* C4: the child enforces the filesystem restriction first, loads the syscall
\* allow-list second, and opens and decodes the input only with both in force;
\* when either fails to install, decode is never invoked and the parent reports
\* failure.
C4_RestrictionsBeforeDecode ==
    /\ seccomp.loaded => landlock /\ seccomp.allow = SelectFilter(ext)
    /\ (decodeInvoked \/ childPc \in {"decode", "report", "exit"})
          => landlock /\ seccomp.loaded
    /\ installFailed # "none" =>
          /\ ~decodeInvoked
          /\ pipeWritten = ""
          /\ childPc = "exited"
          /\ childStatus # Exited(0)
          /\ parentPc # "read"
    /\ (installFailed # "none" /\ parentPc = "done") =>
          /\ stdout = <<>>
          /\ stderr # <<>>
          /\ stderr[Len(stderr)] = FailureLine

\* C4 witness: the allow-list failed to load after the filesystem restriction
\* was enforced, and the parent has reported
C4_Witness ==
    /\ installFailed = "seccomp"
    /\ landlock
    /\ parentPc = "done"

\* C5: the CLI process exits with status 0 when the decode succeeded and with
\* status 1 when it failed (child exited non-zero or was killed).
C5_ExitCodes ==
    (parentPc = "done" /\ childStatus # NoStatus)
        => parentExit = (IF childStatus = Exited(0) THEN 0 ELSE 1)

\* C6: an invocation on a file with an unsupported extension ends with exit
\* code 2, and nothing is ever written to the result pipe.
C6_UnsupportedExtensionExit2 ==
    /\ ext \notin {"png", "jpg", "jpeg", "svg", "mp4"} => pipeWritten = ""
    /\ (ext \notin {"png", "jpg", "jpeg", "svg", "mp4"} /\ parentPc = "done"
            /\ ChildReported)
          => parentExit = 2

----------------------------------------------------------------------------
(* Library decoders: input bytes *)

\* An input is its length and its leading bytes (at most HeadLen of them): no
\* decoder below looks at a later byte itself, the rest is the codec's to read.
Data(bytes, len) == [bytes |-> bytes, len |-> len]

Min(a, b) == IF a < b THEN a ELSE b
Max(a, b) == IF a > b THEN a ELSE b

\* u32::to_le_bytes
LE32(n) == <<n % 256, (n \div 256) % 256, (n \div 65536) % 256, (n \div 16777216) % 256>>

\* u32::from_le_bytes([data[i], data[i+1], data[i+2], data[i+3]])
U32LE(bytes, i) ==
    bytes[i + 1] + 256 * bytes[i + 2] + 65536 * bytes[i + 3] + 16777216 * bytes[i + 4]

\* &data[a..b]
Slice(d, a, b) == SubSeq(d.bytes, a + 1, b)

\* data.starts_with(sig)
StartsWith(d, sig) == d.len >= Len(sig) /\ SubSeq(d.bytes, 1, Len(sig)) = sig

Zeros(n) == [i \in 1..n |-> 0]

PNG_SIG  == <<137, 80, 78, 71, 13, 10, 26, 10>>
JPEG_SOI == <<255, 216>>
B_GIF    == <<71, 73, 70>>
B_87a    == <<56, 55, 97>>
B_89a    == <<56, 57, 97>>
B_RIFF   == <<82, 73, 70, 70>>
B_WEBP   == <<87, 69, 66, 80>>
B_AVI    == <<65, 86, 73, 32>>
B_ftyp   == <<102, 116, 121, 112>>
B_heic   == <<104, 101, 105, 99>>
B_heix   == <<104, 101, 105, 120>>
B_mif1   == <<109, 105, 102, 49>>
B_msf1   == <<109, 115, 102, 49>>
B_hevc   == <<104, 101, 118, 99>>
B_hevx   == <<104, 101, 118, 120>>
B_avif   == <<97, 118, 105, 102>>
B_isom   == <<105, 115, 111, 109>>
B_OggS   == <<79, 103, 103, 83>>
B_fLaC   == <<102, 76, 97, 67>>
B_EBML   == <<26, 69, 223, 163>>
B_webm   == <<119, 101, 98, 109>>
B_avih   == <<97, 118, 105, 104>>
B_LIST   == <<76, 73, 83, 84>>
B_JUNK   == <<74, 85, 78, 75>>
B_hdrl   == <<104, 100, 114, 108>>
B_strl   == <<115, 116, 114, 108>>
B_strh   == <<115, 116, 114, 104>>
B_vids   == <<118, 105, 100, 115>>
B_auds   == <<97, 117, 100, 115>>
JXL_MAGIC_CONTAINER  == <<0, 0, 0, 12, 74, 88, 76, 32, 13, 10, 135, 10>>
JXL_MAGIC_CODESTREAM == <<255, 10>>
TIFF_MAGIC_LE == <<73, 73, 42, 0>>
TIFF_MAGIC_BE == <<77, 77, 0, 42>>
EXR_MAGIC     == <<118, 47, 49, 1>>

----------------------------------------------------------------------------
(* Library decoders: quotas *)

MiB == 1024 * 1024

PNG_USER_LIMIT      == 8192
JPEG_MAX_DIMENSION  == 10000
MAX_WEBP_FILE_SIZE  == 50 * MiB
MAX_WEBP_DIMENSION  == 16384
MAX_HEIF_FILE_SIZE  == 100 * MiB
MAX_HEIF_DIMENSION  == 16384
MAX_AUDIO_FILE_SIZE == 100 * MiB
MAX_AUDIO_DURATION_SECS == 600
MAX_SAMPLE_RATE     == 192000
MAX_CHANNELS        == 8
AVIF_MAX_FILE_SIZE  == 256 * MiB
JXL_MAX_FILE_SIZE   == 256 * MiB
TIFF_MAX_FILE_SIZE  == 500 * MiB
EXR_MAX_FILE_SIZE   == 500 * MiB

----------------------------------------------------------------------------
(* Library decoders: the outcome of one call *)

\* a decoded buffer of n bytes
Buffer(n) == [ok |-> TRUE, len |-> n]

\* The outcome of a call: its result, the checks it went through in order
\* ("magic", "size", "structural", "codec", "recheck") and the number of
\* entries into the codec library.
Outcome(res, trace, calls) == [res |-> res, trace |-> trace, calls |-> calls]

----------------------------------------------------------------------------
(* Library decoders: still images (lib.rs) *)

\* What a codec finds in the bytes it is handed, for a still image:
\*   fail   "none", or the stage at which the codec gives up: "null" (no
\*          session could be allocated), "header", "body"
\*   w, h   the dimensions the stream declares
\*   bpp    bytes per pixel of the codec's own output layout
ImageCodec(fail, w, h, bpp) == [fail |-> fail, w |-> w, h |-> h, bpp |-> bpp]

\* libpng, as configured by decode_png: png_read_info raises an error on a
\* stream that does not start with the PNG signature, on a zero dimension and
\* on a dimension above the user limits; any other failure is the codec's
LibpngRejects(d, c) ==
    \/ c.fail \in {"header", "body"}
    \/ ~StartsWith(d, PNG_SIG)
    \/ c.w = 0 \/ c.h = 0
    \/ c.w > PNG_USER_LIMIT \/ c.h > PNG_USER_LIMIT

\* decode_png: no check of its own before libpng is entered
decode_png(d, c) ==
    IF c.fail = "null"
    THEN Outcome(Err("NullPointer", ""), <<"codec">>, 1)
    ELSE IF LibpngRejects(d, c)
    THEN Outcome(Err("PngError", "PNG decoding failed"), <<"codec">>, 1)
    ELSE Outcome(Buffer((c.w * 4) * c.h), <<"codec">>, 1)

\* libjpeg: jpeg_read_header exits through error_exit on a stream without SOI
LibjpegHeaderRejects(d, c) ==
    \/ c.fail \in {"null", "header"}
    \/ ~StartsWith(d, JPEG_SOI)

\* decode_jpeg: libjpeg reads the header, then the dimensions are checked,
\* then libjpeg decompresses to RGB (3 components)
decode_jpeg(d, c) ==
    IF LibjpegHeaderRejects(d, c)
    THEN Outcome(Err("JpegError", "JPEG decoding failed"), <<"codec">>, 1)
    ELSE IF c.w > JPEG_MAX_DIMENSION \/ c.h > JPEG_MAX_DIMENSION
    THEN Outcome(Err("JpegError", "Image dimensions exceed limits"),
                 <<"codec", "recheck">>, 1)
    ELSE IF c.fail = "body"
    THEN Outcome(Err("JpegError", "JPEG decoding failed"),
                 <<"codec", "recheck", "codec">>, 2)
    ELSE Outcome(Buffer((c.w * 3) * c.h), <<"codec", "recheck", "codec">>, 2)

\* decode_webp without the comparison of the RIFF size field with the length
decode_webp_SkipsRiffSize(d, c) ==
    IF d.len < 12
    THEN Outcome(Err("WebPError", "File too small"), <<"magic">>, 0)
    ELSE IF Slice(d, 0, 4) # B_RIFF
    THEN Outcome(Err("WebPError", "Invalid WebP signature: missing RIFF header"),
                 <<"magic">>, 0)
    ELSE IF Slice(d, 8, 12) # B_WEBP
    THEN Outcome(Err("WebPError", "Invalid WebP signature: missing WEBP marker"),
                 <<"magic">>, 0)
    ELSE IF d.len > MAX_WEBP_FILE_SIZE
    THEN Outcome(Err("WebPError", "WebP file too large"), <<"magic", "size">>, 0)
    ELSE IF c.fail # "none"
    THEN Outcome(Err("WebPError", "WebP decoding failed"), <<"magic", "size", "codec">>, 1)
    ELSE IF c.w > MAX_WEBP_DIMENSION \/ c.h > MAX_WEBP_DIMENSION
    THEN Outcome(Err("WebPError", "WebP dimensions too large"),
                 <<"magic", "size", "codec", "recheck">>, 1)
    ELSE Outcome(Buffer((c.w * c.bpp) * c.h), <<"magic", "size", "codec", "recheck">>, 1)

\* decode_webp
decode_webp(d, c) ==
    IF d.len < 12
    THEN Outcome(Err("WebPError", "File too small"), <<"magic">>, 0)
    ELSE IF Slice(d, 0, 4) # B_RIFF
    THEN Outcome(Err("WebPError", "Invalid WebP signature: missing RIFF header"),
                 <<"magic">>, 0)
    ELSE IF Slice(d, 8, 12) # B_WEBP
    THEN Outcome(Err("WebPError", "Invalid WebP signature: missing WEBP marker"),
                 <<"magic">>, 0)
    ELSE IF U32LE(d.bytes, 4) + 8 # d.len
    THEN Outcome(Err("WebPError", "WebP size mismatch"), <<"magic", "structural">>, 0)
    ELSE IF d.len > MAX_WEBP_FILE_SIZE
    THEN Outcome(Err("WebPError", "WebP file too large"),
                 <<"magic", "structural", "size">>, 0)
    ELSE IF c.fail # "none"
    THEN Outcome(Err("WebPError", "WebP decoding failed"),
                 <<"magic", "structural", "size", "codec">>, 1)
    ELSE IF c.w > MAX_WEBP_DIMENSION \/ c.h > MAX_WEBP_DIMENSION
    THEN Outcome(Err("WebPError", "WebP dimensions too large"),
                 <<"magic", "structural", "size", "codec", "recheck">>, 1)
    ELSE Outcome(Buffer((c.w * c.bpp) * c.h),
                 <<"magic", "structural", "size", "codec", "recheck">>, 1)

HeifBrands == {B_heic, B_heix, B_mif1, B_msf1, B_hevc, B_hevx}

\* decode_heif: the container is read and the handle's dimensions checked
\* before the image is decoded to interleaved RGB
decode_heif(d, c) ==
    IF d.len < 12
    THEN Outcome(Err("HeifError", "File too small"), <<"magic">>, 0)
    ELSE IF Slice(d, 4, 8) # B_ftyp
    THEN Outcome(Err("HeifError", "Invalid HEIF signature: missing ftyp box"),
                 <<"magic">>, 0)
    ELSE IF Slice(d, 8, 12) \notin HeifBrands
    THEN Outcome(Err("HeifError", "Unsupported HEIF brand"), <<"magic">>, 0)
    ELSE IF d.len > MAX_HEIF_FILE_SIZE
    THEN Outcome(Err("HeifError", "HEIF file too large"), <<"magic", "size">>, 0)
    ELSE IF c.fail = "null"
    THEN Outcome(Err("HeifError", "Failed to read HEIF context"),
                 <<"magic", "size", "codec">>, 1)
    ELSE IF c.fail = "header"
    THEN Outcome(Err("HeifError", "Failed to get primary image"),
                 <<"magic", "size", "codec">>, 1)
    ELSE IF c.w > MAX_HEIF_DIMENSION \/ c.h > MAX_HEIF_DIMENSION
    THEN Outcome(Err("HeifError", "HEIF dimensions too large"),
                 <<"magic", "size", "codec", "recheck">>, 1)
    ELSE IF c.fail = "body"
    THEN Outcome(Err("HeifError", "Failed to decode HEIF image"),
                 <<"magic", "size", "codec", "recheck", "codec">>, 2)
    ELSE Outcome(Buffer((c.w * 3) * c.h),
                 <<"magic", "size", "codec", "recheck", "codec">>, 2)

\* decode_svg: UTF-8 or fail, sanitise, parse, rasterise to 256x256, encode
\* as PNG (the codec's w stands for the length of that PNG)
decode_svg(d, c) ==
    IF c.fail = "null"
    THEN Outcome(Err("SvgError", "invalid utf-8 sequence"), <<"structural">>, 0)
    ELSE IF c.fail = "header"
    THEN Outcome(Err("SvgError", "Failed to parse SVG"), <<"structural", "codec">>, 1)
    ELSE IF c.fail = "body"
    THEN Outcome(Err("SvgError", "Failed to encode PNG"), <<"structural", "codec">>, 1)
    ELSE Outcome(Buffer(c.w), <<"structural", "codec">>, 1)

----------------------------------------------------------------------------
(* Library decoders: extended formats (formats/*.rs) *)

\* data.windows(4).take(20).any(|window| window == AVIF_MAGIC)
HasFtypWindow(d) ==
    \E i \in 0..19 : i + 4 <= Min(d.len, Len(d.bytes)) /\ Slice(d, i, i + 4) = B_ftyp

\* decode_avif_with_config with a decoder behind the checks
decode_avif_Decodes(d) ==
    IF d.len = 0
    THEN Outcome(Err("AvifError", "Empty input data"), <<"size">>, 0)
    ELSE IF d.len > AVIF_MAX_FILE_SIZE
    THEN Outcome(Err("AvifError", "File size exceeds maximum"), <<"size">>, 0)
    ELSE IF d.len < 12
    THEN Outcome(Err("AvifError", "File too small to be valid AVIF"),
                 <<"size", "magic">>, 0)
    ELSE IF ~HasFtypWindow(d)
    THEN Outcome(Err("AvifError", "Invalid AVIF magic bytes"), <<"size", "magic">>, 0)
    ELSE Outcome(Buffer(16), <<"size", "magic", "codec">>, 1)

\* decode_avif_with_config, default configuration
decode_avif(d) ==
    IF d.len = 0
    THEN Outcome(Err("AvifError", "Empty input data"), <<"size">>, 0)
    ELSE IF d.len > AVIF_MAX_FILE_SIZE
    THEN Outcome(Err("AvifError", "File size exceeds maximum"), <<"size">>, 0)
    ELSE IF d.len < 12
    THEN Outcome(Err("AvifError", "File too small to be valid AVIF"),
                 <<"size", "magic">>, 0)
    ELSE IF ~HasFtypWindow(d)
    THEN Outcome(Err("AvifError", "Invalid AVIF magic bytes"), <<"size", "magic">>, 0)
    ELSE Outcome(Err("AvifError", "AVIF decoding not yet implemented - requires libavif FFI"),
                 <<"size", "magic">>, 0)

\* decode_jxl_with_config, default configuration
decode_jxl(d) ==
    IF d.len = 0
    THEN Outcome(Err("JxlError", "Empty input data"), <<"size">>, 0)
    ELSE IF d.len > JXL_MAX_FILE_SIZE
    THEN Outcome(Err("JxlError", "File size exceeds maximum"), <<"size">>, 0)
    ELSE IF ~(StartsWith(d, JXL_MAGIC_CONTAINER) \/ StartsWith(d, JXL_MAGIC_CODESTREAM))
    THEN Outcome(Err("JxlError", "Invalid JPEG XL magic bytes"), <<"size", "magic">>, 0)
    ELSE Outcome(Err("JxlError", "JPEG XL decoding not yet implemented - requires libjxl FFI"),
                 <<"size", "magic">>, 0)

\* decode_tiff_with_config, default configuration
decode_tiff(d) ==
    IF d.len = 0
    THEN Outcome(Err("TiffError", "Empty input data"), <<"size">>, 0)
    ELSE IF d.len > TIFF_MAX_FILE_SIZE
    THEN Outcome(Err("TiffError", "File size exceeds maximum"), <<"size">>, 0)
    ELSE IF d.len < 4
    THEN Outcome(Err("TiffError", "File too small to be valid TIFF"),
                 <<"size", "magic">>, 0)
    ELSE IF ~(StartsWith(d, TIFF_MAGIC_LE) \/ StartsWith(d, TIFF_MAGIC_BE))
    THEN Outcome(Err("TiffError", "Invalid TIFF magic bytes"), <<"size", "magic">>, 0)
    ELSE Outcome(Err("TiffError", "TIFF decoding not yet implemented - requires libtiff FFI"),
                 <<"size", "magic">>, 0)

\* decode_exr_with_config, default configuration
decode_exr(d) ==
    IF d.len = 0
    THEN Outcome(Err("ExrError", "Empty input data"), <<"size">>, 0)
    ELSE IF d.len > EXR_MAX_FILE_SIZE
    THEN Outcome(Err("ExrError", "File size exceeds maximum"), <<"size">>, 0)
    ELSE IF d.len < 4
    THEN Outcome(Err("ExrError", "File too small to be valid OpenEXR"),
                 <<"size", "magic">>, 0)
    ELSE IF ~StartsWith(d, EXR_MAGIC)
    THEN Outcome(Err("ExrError", "Invalid OpenEXR magic bytes"), <<"size", "magic">>, 0)
    ELSE Outcome(Err("ExrError", "OpenEXR decoding not yet implemented - requires OpenEXR FFI"),
                 <<"size", "magic">>, 0)

----------------------------------------------------------------------------
(* Library decoders: GIF (lib.rs) *)

\* a ColorMapObject pointer: null, or a map with its ColorCount and Colors
NoColorMap == [present |-> FALSE, ColorCount |-> 0, ColorsNull |-> TRUE]
ColorMap(count, colorsNull) ==
    [present |-> TRUE, ColorCount |-> count, ColorsNull |-> colorsNull]

\* What the GIF library makes of the bytes: whether safe_DGifOpen and
\* safe_DGifSlurp succeed, the canvas, the number of images, the global map
\* and the first image's descriptor, local map and raster.
GifCodec(open, slurp, sw, sh, count, global, local, left, top, w, h, raster) ==
    [open |-> open, slurp |-> slurp, SWidth |-> sw, SHeight |-> sh,
     ImageCount |-> count, SColorMap |-> global, ColorMap |-> local,
     Left |-> left, Top |-> top, Width |-> w, Height |-> h, RasterBits |-> raster]

\* the comparison of a palette index with cmap.ColorCount, off by one
IndexInRange_OffByOne(color_idx, cmap) == color_idx <= cmap.ColorCount

\* the negation of color_idx >= cmap.ColorCount
IndexInRange(color_idx, cmap) == color_idx < cmap.ColorCount

\* the pixel loop of decode_gif from pixel i on (src_idx = i - 1): the result,
\* and the indices at which cmap.Colors has been read so far
RECURSIVE GifPixels(_, _, _, _)
GifPixels(g, cmap, i, reads) ==
    IF i > g.Width * g.Height
    THEN [res |-> Buffer((g.SWidth * g.SHeight) * 4), reads |-> reads]
    ELSE LET color_idx == g.RasterBits[i]
         IN  IF ~IndexInRange(color_idx, cmap)
             THEN [res |-> Err("GifError",
                               "Color index " \o ToDecimal(color_idx) \o " out of range (max: "
                                   \o ToDecimal(cmap.ColorCount - 1) \o ")"),
                   reads |-> reads]
             ELSE GifPixels(g, cmap, i + 1, Append(reads, color_idx))

\* the first frame of decode_gif, after the slurp: the result, the map that
\* was resolved and the indices read from it
GifFrame(g) ==
    LET which == IF g.ColorMap.present THEN "local"
                 ELSE IF g.SColorMap.present THEN "global"
                 ELSE "none"
        cmap == IF g.ColorMap.present THEN g.ColorMap ELSE g.SColorMap
        Stop(msg) == [res |-> Err("GifError", msg), cmap |-> which, reads |-> <<>>]
    IN  IF which = "none"
        THEN Stop("No color map found")
        ELSE IF cmap.ColorCount <= 0 \/ cmap.ColorCount > 256
        THEN Stop("Invalid color count: " \o ToDecimal(cmap.ColorCount))
        ELSE IF cmap.ColorsNull
        THEN Stop("Color map is NULL")
        ELSE IF g.Left + g.Width > g.SWidth \/ g.Top + g.Height > g.SHeight
        THEN Stop("Image out of bounds")
        ELSE [res |-> GifPixels(g, cmap, 1, <<>>).res,
              cmap |-> which,
              reads |-> GifPixels(g, cmap, 1, <<>>).reads]

GifFirstFrame(g) == GifFrame(g).res

\* whether decode_gif gets to the first frame
GifReachesFrame(d, g) ==
    /\ d.len >= 6
    /\ Slice(d, 0, 3) = B_GIF
    /\ Slice(d, 3, 6) = B_87a \/ Slice(d, 3, 6) = B_89a
    /\ g.open
    /\ g.slurp
    /\ g.ImageCount > 0

\* the map resolved and the indices read from it by a call of decode_gif
GifMapReads(d, g) ==
    IF GifReachesFrame(d, g)
    THEN [cmap |-> GifFrame(g).cmap, reads |-> GifFrame(g).reads]
    ELSE [cmap |-> "none", reads |-> <<>>]

\* decode_gif
decode_gif(d, g) ==
    IF d.len < 6
    THEN Outcome(Err("GifError", "File too small"), <<"magic">>, 0)
    ELSE IF Slice(d, 0, 3) # B_GIF
    THEN Outcome(Err("GifError", "Invalid GIF signature"), <<"magic">>, 0)
    ELSE IF Slice(d, 3, 6) # B_87a /\ Slice(d, 3, 6) # B_89a
    THEN Outcome(Err("GifError", "Unknown GIF version"), <<"magic">>, 0)
    ELSE IF ~g.open
    THEN Outcome(Err("GifError", "Failed to open GIF"), <<"magic", "codec">>, 1)
    ELSE IF ~g.slurp
    THEN Outcome(Err("GifError", "Failed to decode GIF"), <<"magic", "codec">>, 2)
    ELSE IF g.ImageCount > 0
    THEN Outcome(GifFirstFrame(g), <<"magic", "codec", "recheck">>, 2)
    ELSE Outcome(Buffer((g.SWidth * g.SHeight) * 4), <<"magic", "codec">>, 2)

----------------------------------------------------------------------------
(* Library decoders: audio (lib.rs) *)

\* decoded audio: the number of interleaved samples and the format
Audio(n, rate, ch) == [ok |-> TRUE, len |-> n, sample_rate |-> rate, channels |-> ch]

\* an arithmetic panic (attempt to divide by zero)
Panic(msg) == [ok |-> FALSE, variant |-> "Panic", msg |-> msg]

\* one decoded MP3 frame: its sample rate, channel count and sample count
Frame(rate, ch, n) == [rate |-> rate, ch |-> ch, n |-> n]

\* what the audio codec makes of the bytes: whether the reader initialises,
\* the format the stream header declares, the frames (packets) it yields and
\* whether the stream ends at end of file or in a decode error
AudioCodec(init, rate, ch, frames, ending) ==
    [init |-> init, rate |-> rate, ch |-> ch, frames |-> frames, ending |-> ending]

\* the comparison of a frame's sample rate with MAX_SAMPLE_RATE, made inclusive
SampleRateTooHigh_Inclusive(rate) == rate >= MAX_SAMPLE_RATE

\* rate as u32 > MAX_SAMPLE_RATE
SampleRateTooHigh(rate) == rate > MAX_SAMPLE_RATE

RECURSIVE Mp3Loop(_, _, _, _, _, _)
\* the loop of decode_mp3 from frame i on: sample_rate and channels are set
\* from the first frame, total_samples is checked after every frame
Mp3Loop(c, i, sample_rate, channels, total_samples, tr) ==
    IF i > Len(c.frames)
    THEN IF c.ending = "error"
         THEN Outcome(Err("Mp3Error", "Decode error"), tr \o <<"codec">>, i)
         ELSE IF total_samples = 0
         THEN Outcome(Err("Mp3Error", "No audio data decoded"), tr \o <<"codec">>, i)
         ELSE Outcome(Audio(total_samples, sample_rate, channels), tr \o <<"codec">>, i)
    ELSE LET f == c.frames[i]
             sr == IF sample_rate = 0 THEN f.rate ELSE sample_rate
             ch == IF sample_rate = 0 THEN f.ch ELSE channels
             total == total_samples + f.n
             t == tr \o <<"codec", "recheck">>
         IN  IF SampleRateTooHigh(f.rate)
             THEN Outcome(Err("Mp3Error", "Sample rate too high"), t, i)
             ELSE IF f.ch > MAX_CHANNELS
             THEN Outcome(Err("Mp3Error", "Too many channels"), t, i)
             ELSE IF sr * ch = 0
             THEN Outcome(Panic("attempt to divide by zero"), t, i)
             ELSE IF total \div (sr * ch) > MAX_AUDIO_DURATION_SECS
             THEN Outcome(Err("Mp3Error", "Audio too long"), t, i)
             ELSE Mp3Loop(c, i + 1, sr, ch, total, t)

\* decode_mp3: size, then signature, then the frame loop
decode_mp3(d, c) ==
    IF d.len > MAX_AUDIO_FILE_SIZE
    THEN Outcome(Err("Mp3Error", "File too large"), <<"size">>, 0)
    ELSE IF d.len < 2 \/ d.bytes[1] # 255 \/ (d.bytes[2] \div 32) # 7
    THEN Outcome(Err("Mp3Error", "Invalid MP3 signature"), <<"size", "magic">>, 0)
    ELSE Mp3Loop(c, 1, 0, 0, 0, <<"size", "magic">>)

RECURSIVE PacketLoop(_, _, _, _, _)
\* the packet loop of decode_vorbis from packet i on
PacketLoop(c, i, total_samples, tr, variant) ==
    IF i > Len(c.frames)
    THEN IF c.ending = "error"
         THEN Outcome(Err(variant, "Decode error"), tr \o <<"codec">>, i + 1)
         ELSE IF total_samples = 0
         THEN Outcome(Err(variant, "No audio data decoded"), tr \o <<"codec">>, i + 1)
         ELSE Outcome(Audio(total_samples, c.rate, c.ch), tr \o <<"codec">>, i + 1)
    ELSE LET total == total_samples + c.frames[i].n
             t == tr \o <<"codec", "recheck">>
         IN  IF c.rate * c.ch = 0
             THEN Outcome(Panic("attempt to divide by zero"), t, i + 1)
             ELSE IF total \div (c.rate * c.ch) > MAX_AUDIO_DURATION_SECS
             THEN Outcome(Err(variant, "Audio too long"), t, i + 1)
             ELSE PacketLoop(c, i + 1, total, t, variant)

\* decode_vorbis
decode_vorbis(d, c) ==
    IF d.len > MAX_AUDIO_FILE_SIZE
    THEN Outcome(Err("VorbisError", "File too large"), <<"size">>, 0)
    ELSE IF d.len < 4 \/ Slice(d, 0, 4) # B_OggS
    THEN Outcome(Err("VorbisError", "Invalid Ogg signature"), <<"size", "magic">>, 0)
    ELSE IF ~c.init
    THEN Outcome(Err("VorbisError", "Failed to initialize reader"),
                 <<"size", "magic", "codec">>, 1)
    ELSE IF c.rate > MAX_SAMPLE_RATE
    THEN Outcome(Err("VorbisError", "Sample rate too high"),
                 <<"size", "magic", "codec", "recheck">>, 1)
    ELSE IF c.ch > MAX_CHANNELS
    THEN Outcome(Err("VorbisError", "Too many channels"),
                 <<"size", "magic", "codec", "recheck">>, 1)
    ELSE PacketLoop(c, 1, 0, <<"size", "magic", "codec", "recheck">>, "VorbisError")

\* the number of samples the stream yields before it ends
SampleCount(c) ==
    LET S[i \in 0..Len(c.frames)] == IF i = 0 THEN 0 ELSE S[i - 1] + c.frames[i].n
    IN  S[Len(c.frames)]

\* the sample loop of decode_flac: the duration is checked after every sample,
\* so the loop fails at the first sample that brings it above the maximum
FlacSamples(c, tr) ==
    LET n == SampleCount(c)
        per == c.rate * c.ch
        t == tr \o <<"codec", "recheck">>
    IN  IF n = 0
        THEN IF c.ending = "error"
             THEN Outcome(Err("FlacError", "Decode error"), tr \o <<"codec">>, 2)
             ELSE Outcome(Err("FlacError", "No audio data decoded"), tr \o <<"codec">>, 2)
        ELSE IF per = 0
        THEN Outcome(Panic("attempt to divide by zero"), t, 2)
        ELSE IF n \div per > MAX_AUDIO_DURATION_SECS
        THEN Outcome(Err("FlacError", "Audio too long"), t, 2)
        ELSE IF c.ending = "error"
        THEN Outcome(Err("FlacError", "Decode error"), t \o <<"codec">>, 2)
        ELSE Outcome(Audio(n, c.rate, c.ch), t \o <<"codec">>, 2)

\* decode_flac
decode_flac(d, c) ==
    IF d.len > MAX_AUDIO_FILE_SIZE
    THEN Outcome(Err("FlacError", "File too large"), <<"size">>, 0)
    ELSE IF d.len < 4 \/ Slice(d, 0, 4) # B_fLaC
    THEN Outcome(Err("FlacError", "Invalid FLAC signature"), <<"size", "magic">>, 0)
    ELSE IF ~c.init
    THEN Outcome(Err("FlacError", "Failed to initialize reader"),
                 <<"size", "magic", "codec">>, 1)
    ELSE IF c.rate > MAX_SAMPLE_RATE
    THEN Outcome(Err("FlacError", "Sample rate too high"),
                 <<"size", "magic", "codec", "recheck">>, 1)
    ELSE IF c.ch > MAX_CHANNELS
    THEN Outcome(Err("FlacError", "Too many channels"),
                 <<"size", "magic", "codec", "recheck">>, 1)
    ELSE FlacSamples(c, <<"size", "magic", "codec", "recheck">>)

----------------------------------------------------------------------------
(* Library decoders: the inputs of the model *)

\* the first bytes of an input of len bytes that starts with sig and goes on
\* with zero bytes
LeadingBytes(sig, len) == SubSeq(sig \o Zeros(HeadLen), 1, Min(len, HeadLen))

Lens ==
    {0, 1, 3, 5, 11, 12, 64,
     MAX_WEBP_FILE_SIZE, MAX_WEBP_FILE_SIZE + 1,
     MAX_AUDIO_FILE_SIZE, MAX_AUDIO_FILE_SIZE + 1,
     AVIF_MAX_FILE_SIZE + 1, TIFF_MAX_FILE_SIZE + 1}

\* a RIFF header declaring `declared` bytes, with the given form type
RiffHead(declared, form) == B_RIFF \o LE32(Max(declared, 0)) \o form

\* an ftyp box header with the given major brand
FtypHead(brand) == <<0, 0, 0, 24>> \o B_ftyp \o brand

\* the signatures of a kind, for an input of len bytes
KindSigs(k, len) ==
    CASE k = "png"    -> {PNG_SIG}
      [] k = "jpeg"   -> {JPEG_SOI \o <<255, 224>>}
      [] k = "gif"    -> {B_GIF \o B_87a, B_GIF \o B_89a}
      [] k = "webp"   -> {RiffHead(len - 8, B_WEBP)}
      [] k = "heif"   -> {FtypHead(B_heic), FtypHead(B_mif1)}
      [] k = "svg"    -> {<<60, 115, 118, 103>>}
      [] k = "mp3"    -> {<<255, 251>>}
      [] k = "vorbis" -> {B_OggS}
      [] k = "flac"   -> {B_fLaC}
      [] k = "avif"   -> {FtypHead(B_avif)}
      [] k = "jxl"    -> {JXL_MAGIC_CONTAINER, JXL_MAGIC_CODESTREAM}
      [] k = "tiff"   -> {TIFF_MAGIC_LE, TIFF_MAGIC_BE}
      [] k = "exr"    -> {EXR_MAGIC}

Kinds == {"png", "jpeg", "gif", "webp", "heif", "svg", "mp3", "vorbis", "flac",
          "avif", "jxl", "tiff", "exr"}

\* signatures of every kind, and some of none
AllSigs(len) ==
    UNION {KindSigs(k, len) : k \in Kinds}
    \cup {B_GIF \o <<57, 48, 97>>,
          RiffHead(len - 4, B_WEBP),
          RiffHead(len - 8, B_AVI),
          FtypHead(B_isom),
          Zeros(16) \o B_ftyp,
          B_EBML,
          <<>>}

DataSet == UNION {{Data(LeadingBytes(sig, len), len) : sig \in AllSigs(len)} : len \in Lens}

\* inputs that carry the kind's own signature
KindData(k) ==
    UNION {{Data(LeadingBytes(sig, len), len) : sig \in KindSigs(k, len)} :
              len \in {64, MAX_WEBP_FILE_SIZE, MAX_WEBP_FILE_SIZE + 1}}

DimPairs ==
    {<<2, 2>>, <<0, 2>>,
     <<PNG_USER_LIMIT, 2>>, <<PNG_USER_LIMIT + 1, 2>>, <<2, PNG_USER_LIMIT + 1>>,
     <<JPEG_MAX_DIMENSION, 2>>, <<JPEG_MAX_DIMENSION + 1, 2>>, <<2, JPEG_MAX_DIMENSION + 1>>,
     <<MAX_WEBP_DIMENSION, 2>>, <<MAX_WEBP_DIMENSION + 1, 2>>, <<2, MAX_WEBP_DIMENSION + 1>>}

ImageCodecs ==
    {ImageCodec(fail, wh[1], wh[2], bpp) :
        fail \in {"none", "null", "header", "body"}, wh \in DimPairs, bpp \in {3, 4}}

GifMaps == {NoColorMap, ColorMap(2, FALSE), ColorMap(2, TRUE), ColorMap(0, FALSE),
            ColorMap(257, FALSE)}

GifRects == {<<0, 0, 1, 1>>, <<1, 0, 1, 1>>, <<0, 0, 2, 1>>}

GifCodecs ==
    {GifCodec(FALSE, FALSE, 1, 1, 0, NoColorMap, NoColorMap, 0, 0, 1, 1, <<0>>),
     GifCodec(TRUE, FALSE, 1, 1, 0, NoColorMap, NoColorMap, 0, 0, 1, 1, <<0>>)}
    \cup UNION {{GifCodec(TRUE, TRUE, sw, 1, count, global, local, r[1], r[2], r[3], r[4], raster) :
                    sw \in {1, 2}, count \in {0, 1}, global \in GifMaps,
                    local \in {NoColorMap, ColorMap(8, FALSE)},
                    raster \in [1..(r[3] * r[4]) -> {0, 1, 2, 7}]} : r \in GifRects}
    \cup {GifCodec(TRUE, TRUE, wh[1], wh[2], count, ColorMap(2, FALSE), NoColorMap,
                   0, 0, 1, 1, <<0>>) :
             wh \in {<<MAX_WEBP_DIMENSION, MAX_WEBP_DIMENSION>>,
                     <<MAX_WEBP_DIMENSION + 1, MAX_WEBP_DIMENSION>>},
             count \in {0, 1}}

Frames ==
    {Frame(rc[1], rc[2], n) :
        rc \in {<<0, 0>>, <<1, 1>>, <<1, 0>>, <<1, MAX_CHANNELS>>, <<1, MAX_CHANNELS + 1>>,
                <<MAX_SAMPLE_RATE, 1>>, <<MAX_SAMPLE_RATE + 1, 1>>},
        n \in {1, MAX_AUDIO_DURATION_SECS + 1}}
    \cup {Frame(1, MAX_CHANNELS, MAX_AUDIO_DURATION_SECS * MAX_CHANNELS + 1)}

FrameRuns == UNION {[1..n -> Frames] : n \in 0..MaxFrames}

\* MP3 streams carry their format in the frames; the header fields are unused
Mp3Codecs ==
    {AudioCodec(TRUE, 0, 0, fs, ending) : fs \in FrameRuns, ending \in {"eof", "error"}}

\* Vorbis and FLAC streams declare one format in the header
HeaderRuns(f) ==
    [1..MaxFrames -> {Frame(f.rate, f.ch, n) :
                         n \in {1, MAX_AUDIO_DURATION_SECS,
                                MAX_AUDIO_DURATION_SECS * f.ch + 1}}]
    \cup {<<>>, <<f>>}

HeaderCodecs ==
    {AudioCodec(FALSE, 1, 1, <<>>, "eof")}
    \cup UNION {{AudioCodec(TRUE, f.rate, f.ch, fs, ending) :
                    fs \in HeaderRuns(f), ending \in {"eof", "error"}} : f \in Frames}

NoCodec == [none |-> TRUE]

Codecs(k) ==
    CASE k \in {"png", "jpeg", "webp", "heif", "svg"} -> ImageCodecs
      [] k = "gif"                -> GifCodecs
      [] k = "mp3"                -> Mp3Codecs
      [] k \in {"vorbis", "flac"} -> HeaderCodecs
      [] OTHER                    -> {NoCodec}

\* a codec that finds a small well-formed stream
DefaultCodec(k) ==
    CASE k \in {"png", "jpeg", "webp", "heif", "svg"} -> ImageCodec("none", 2, 2, 4)
      [] k = "gif" ->
            GifCodec(TRUE, TRUE, 1, 1, 1, ColorMap(2, FALSE), NoColorMap, 0, 0, 1, 1, <<1>>)
      [] k = "mp3"                -> AudioCodec(TRUE, 0, 0, <<Frame(1, 1, 1)>>, "eof")
      [] k \in {"vorbis", "flac"} -> AudioCodec(TRUE, 1, 1, <<Frame(1, 1, 1)>>, "eof")
      [] OTHER                    -> NoCodec

\* the calls of the model: every input with the default codec, and the kind's
\* own inputs with every codec
Calls(k) ==
    {[kind |-> k, data |-> d, codec |-> DefaultCodec(k)] : d \in DataSet}
    \cup {[kind |-> k, data |-> d, codec |-> c] : d \in KindData(k), c \in Codecs(k)}

----------------------------------------------------------------------------
(* Library decoders: the dispatch surface (api.rs) and the specification *)

NoOutcome == Outcome(Err("none", ""), <<>>, 0)

\* native codec sessions of a call: how many were created, how many of them
\* were destroyed before the call returned
SessionCount(created, destroyed) == [created |-> created, destroyed |-> destroyed]

\* decode_png: png_create_read_struct (with its info struct), and
\* png_destroy_read_struct on the info-null, longjmp and success paths
png_sessions(d, c) ==
    IF c.fail = "null" THEN SessionCount(0, 0) ELSE SessionCount(1, 1)

\* decode_jpeg: jpeg_CreateDecompress, and jpeg_destroy_decompress on the
\* longjmp and success paths; the dimension rejection returns without it
jpeg_sessions(d, c) ==
    IF LibjpegHeaderRejects(d, c) THEN SessionCount(1, 1)
    ELSE IF c.w > JPEG_MAX_DIMENSION \/ c.h > JPEG_MAX_DIMENSION THEN SessionCount(1, 0)
    ELSE SessionCount(1, 1)

\* decode_gif: safe_DGifOpen, and safe_DGifClose on every path after it
gif_sessions(d, g) ==
    IF d.len < 6 \/ Slice(d, 0, 3) # B_GIF
          \/ (Slice(d, 3, 6) # B_87a /\ Slice(d, 3, 6) # B_89a)
          \/ ~g.open
    THEN SessionCount(0, 0)
    ELSE SessionCount(1, 1)

\* the sessions of a call of the kinds that use a native library
Sessions(k, d, c) ==
    CASE k = "png"  -> png_sessions(d, c)
      [] k = "jpeg" -> jpeg_sessions(d, c)
      [] k = "gif"  -> gif_sessions(d, c)
      [] OTHER      -> SessionCount(0, 0)

\* one arm of HardenedDecoder::decode_with_options
Dispatch(k, out) ==
    /\ dec.pc = "call"
    /\ dec.kind = k
    /\ dec' = [dec EXCEPT !.pc = "done", !.out = out,
                          !.sessions = Sessions(k, dec.data, dec.codec)]
    /\ UNCHANGED <<cliVars, vid>>

DecodePng    == Dispatch("png", decode_png(dec.data, dec.codec))
DecodeJpeg   == Dispatch("jpeg", decode_jpeg(dec.data, dec.codec))
DecodeGif ==
    /\ dec.pc = "call"
    /\ dec.kind = "gif"
    /\ dec' = [dec EXCEPT !.pc = "done",
                          !.out = decode_gif(dec.data, dec.codec),
                          !.gif = GifMapReads(dec.data, dec.codec),
                          !.sessions = Sessions("gif", dec.data, dec.codec)]
    /\ UNCHANGED <<cliVars, vid>>
DecodeWebp   == Dispatch("webp", decode_webp(dec.data, dec.codec))
DecodeHeif   == Dispatch("heif", decode_heif(dec.data, dec.codec))
DecodeSvg    == Dispatch("svg", decode_svg(dec.data, dec.codec))
DecodeAvif   == Dispatch("avif", decode_avif(dec.data))
DecodeJxl    == Dispatch("jxl", decode_jxl(dec.data))
DecodeTiff   == Dispatch("tiff", decode_tiff(dec.data))
DecodeExr    == Dispatch("exr", decode_exr(dec.data))
DecodeMp3    == Dispatch("mp3", decode_mp3(dec.data, dec.codec))
DecodeVorbis == Dispatch("vorbis", decode_vorbis(dec.data, dec.codec))
DecodeFlac   == Dispatch("flac", decode_flac(dec.data, dec.codec))

\* no CLI invocation is in progress
CliIdle ==
    /\ ext = ""
    /\ fileOutcome = [io |-> FALSE, dec |-> [res |-> UnsupportedFileType, diag |-> <<>>]]
    /\ parentPc = "idle"
    /\ childPc = "none"
    /\ writers = {}
    /\ pipeBuf = ""
    /\ pipeWritten = ""
    /\ resultBuf = ""
    /\ landlock = FALSE
    /\ seccomp = NoFilter
    /\ installFailed = "none"
    /\ decodeInvoked = FALSE
    /\ childStatus = NoStatus
    /\ stdout = <<>>
    /\ stderr = <<>>
    /\ parentExit = NoExit

InitDecode ==
    /\ CliIdle
    /\ vid = Idle
    /\ \E k \in Kinds : \E c \in Calls(k) :
          dec = [pc |-> "call", kind |-> c.kind, data |-> c.data, codec |-> c.codec,
                 out |-> NoOutcome, gif |-> [cmap |-> "none", reads |-> <<>>],
                 sessions |-> SessionCount(0, 0)]

NextDecode ==
    \/ DecodePng
    \/ DecodeJpeg
    \/ DecodeGif
    \/ DecodeWebp
    \/ DecodeHeif
    \/ DecodeSvg
    \/ DecodeAvif
    \/ DecodeJxl
    \/ DecodeTiff
    \/ DecodeExr
    \/ DecodeMp3
    \/ DecodeVorbis
    \/ DecodeFlac

SpecDecode == InitDecode /\ [][NextDecode]_vars

----------------------------------------------------------------------------
(* Library decoders: properties *)

DecodeDone == dec.pc = "done"

\* the signature of each kind (SVG has none)
SignatureMatches(k, d) ==
    CASE k = "png"    -> StartsWith(d, PNG_SIG)
      [] k = "jpeg"   -> StartsWith(d, JPEG_SOI)
      [] k = "gif"    -> StartsWith(d, B_GIF \o B_87a) \/ StartsWith(d, B_GIF \o B_89a)
      [] k = "webp"   -> d.len >= 12 /\ Slice(d, 0, 4) = B_RIFF /\ Slice(d, 8, 12) = B_WEBP
      [] k = "heif"   -> d.len >= 12 /\ Slice(d, 4, 8) = B_ftyp /\ Slice(d, 8, 12) \in HeifBrands
      [] k = "avif"   -> /\ d.len >= 12
                         /\ Slice(d, 4, 8) = B_ftyp
                         /\ \E i \in {8, 16, 20} :
                               i + 4 <= Min(d.len, Len(d.bytes)) /\ Slice(d, i, i + 4) = B_avif
      [] k = "jxl"    -> StartsWith(d, JXL_MAGIC_CONTAINER) \/ StartsWith(d, JXL_MAGIC_CODESTREAM)
      [] k = "tiff"   -> StartsWith(d, TIFF_MAGIC_LE) \/ StartsWith(d, TIFF_MAGIC_BE)
      [] k = "exr"    -> StartsWith(d, EXR_MAGIC)
      [] k = "mp3"    -> d.len >= 2 /\ d.bytes[1] = 255 /\ d.bytes[2] \div 32 = 7
      [] k = "vorbis" -> StartsWith(d, B_OggS)
      [] k = "flac"   -> StartsWith(d, B_fLaC)
      [] OTHER        -> TRUE

\* the call ended in an error raised by the magic check
RejectedAtMagic(out) ==
    /\ ~out.res.ok
    /\ out.calls = 0
    /\ out.trace # <<>>
    /\ out.trace[Len(out.trace)] = "magic"

\* the position of the first occurrence of a step in a trace
FirstAt(trace, step) ==
    CHOOSE i \in 1..Len(trace) :
        trace[i] = step /\ \A j \in 1..(i - 1) : trace[j] # step

Present(trace, step) == \E i \in 1..Len(trace) : trace[i] = step

\* C7: for every kind, an input whose leading bytes do not match the kind's
\* signature is rejected by the magic check, and whenever a codec has been
\* entered the input carries the signature and the magic check came first.
C7_MagicGateBeforeCodec ==
    DecodeDone =>
        /\ ~SignatureMatches(dec.kind, dec.data) => RejectedAtMagic(dec.out)
        /\ dec.out.calls > 0 =>
              /\ SignatureMatches(dec.kind, dec.data)
              /\ dec.kind # "svg" =>
                    /\ Present(dec.out.trace, "magic")
                    /\ FirstAt(dec.out.trace, "magic") < FirstAt(dec.out.trace, "codec")

FileSizeQuota ==
    [webp |-> MAX_WEBP_FILE_SIZE, heif |-> MAX_HEIF_FILE_SIZE,
     mp3 |-> MAX_AUDIO_FILE_SIZE, vorbis |-> MAX_AUDIO_FILE_SIZE, flac |-> MAX_AUDIO_FILE_SIZE,
     avif |-> AVIF_MAX_FILE_SIZE, jxl |-> JXL_MAX_FILE_SIZE,
     tiff |-> TIFF_MAX_FILE_SIZE, exr |-> EXR_MAX_FILE_SIZE]

DimensionQuota ==
    [png |-> PNG_USER_LIMIT, jpeg |-> JPEG_MAX_DIMENSION,
     webp |-> MAX_WEBP_DIMENSION, heif |-> MAX_HEIF_DIMENSION]

OverSize(k, d) == k \in DOMAIN FileSizeQuota /\ d.len > FileSizeQuota[k]

OverFormat(rate, ch) == rate > MAX_SAMPLE_RATE \/ ch > MAX_CHANNELS

\* the input is over a file-size, dimension, sample-rate or channel quota of
\* its kind
ViolatesQuota(k, d, c) ==
    \/ OverSize(k, d)
    \/ /\ k \in DOMAIN DimensionQuota
       /\ SignatureMatches(k, d)
       /\ c.fail = "none"
       /\ (c.w > DimensionQuota[k] \/ c.h > DimensionQuota[k])
    \/ /\ k = "mp3"
       /\ SignatureMatches(k, d)
       /\ \E i \in 1..Len(c.frames) : OverFormat(c.frames[i].rate, c.frames[i].ch)
    \/ /\ k \in {"vorbis", "flac"}
       /\ SignatureMatches(k, d)
       /\ c.init
       /\ OverFormat(c.rate, c.ch)

\* C8: an input that violates a quota of its kind yields an error, and the
\* codec has not been called at all.
C8_QuotaBeforeCodec ==
    DecodeDone /\ ViolatesQuota(dec.kind, dec.data, dec.codec) =>
        ~dec.out.res.ok /\ dec.out.calls = 0

Steps == <<"magic", "size", "structural", "codec", "recheck">>

\* the steps that were taken were first taken in the fixed order
InFixedOrder(trace) ==
    \A i, j \in 1..Len(Steps) :
        i < j /\ Present(trace, Steps[i]) /\ Present(trace, Steps[j]) =>
            FirstAt(trace, Steps[i]) < FirstAt(trace, Steps[j])

\* C9: the steps of a call run in the order magic, size, structural, codec,
\* re-check; a call that succeeds has taken every one of them; an input that
\* fails both the magic check and the size quota is reported by the magic check.
C9_FixedStepOrder ==
    DecodeDone =>
        /\ InFixedOrder(dec.out.trace)
        /\ dec.out.res.ok => \A i \in 1..Len(Steps) : Present(dec.out.trace, Steps[i])
        /\ ~SignatureMatches(dec.kind, dec.data) /\ OverSize(dec.kind, dec.data) =>
              RejectedAtMagic(dec.out)

----------------------------------------------------------------------------
(* Video container validation (lib.rs) *)

MAX_VIDEO_FILE_SIZE == 500 * MiB
MAX_VIDEO_DURATION_SECS == 3600
MAX_VIDEO_WIDTH == 3840
MAX_VIDEO_HEIGHT == 2160
MAX_VIDEO_TRACKS == 8

\* A duration in seconds, whole + num/den with 0 <= num < den: the f64 values
\* of the code, exact for the values of the model.
Secs(whole, num, den) == [whole |-> whole, num |-> num, den |-> den]

\* a as f64 / b as f64
Quotient(a, b) == Secs(a \div b, a % b, b)

\* a > b
GreaterSecs(a, b) ==
    \/ a.whole > b.whole
    \/ a.whole = b.whole /\ a.num * b.den > b.num * a.den

\* f64::max
MaxSecs(a, b) == IF GreaterSecs(b, a) THEN b ELSE a

\* duration_secs > limit as f64
ExceedsSecs(s, limit) == s.whole > limit \/ (s.whole = limit /\ s.num > 0)

\* format!("{:.1}", duration_secs)
Fixed1(s) ==
    LET t == (10 * s.num) \div s.den
        r == (10 * s.num) % s.den
        up == IF 2 * r > s.den \/ (2 * r = s.den /\ t % 2 = 1) THEN 1 ELSE 0
        q == 10 * s.whole + t + up
    IN  ToDecimal(q \div 10) \o "." \o ToDecimal(q % 10)

VideoMetadata(container_format, width, height, duration_secs, video_tracks, audio_tracks) ==
    [ok |-> TRUE,
     container_format |-> container_format,
     width |-> width,
     height |-> height,
     duration_secs |-> duration_secs,
     video_tracks |-> video_tracks,
     audio_tracks |-> audio_tracks,
     validated |-> TRUE]

\* data_str.contains("webm") over &data[0..50]: ASCII bytes survive
\* from_utf8_lossy, and the bytes after the leading ones are zero
ContainsWebm(d) ==
    \E i \in 0..46 : i + 4 <= Len(d.bytes) /\ Slice(d, i, i + 4) = B_webm

\* detect_video_format: the format, or the panic of the slice &data[0..50] on
\* an EBML input of 20 to 49 bytes
detect_video_format(d) ==
    IF d.len < 12 THEN [ok |-> TRUE, format |-> "Unknown"]
    ELSE IF d.len >= 8 /\ Slice(d, 4, 8) = B_ftyp THEN [ok |-> TRUE, format |-> "MP4"]
    ELSE IF d.len >= 4 /\ Slice(d, 0, 4) = B_EBML
    THEN IF d.len >= 20 /\ d.len < 50
         THEN Panic("range end index 50 out of range for slice of length " \o ToDecimal(d.len))
         ELSE IF d.len >= 20 /\ ContainsWebm(d)
         THEN [ok |-> TRUE, format |-> "WebM"]
         ELSE [ok |-> TRUE, format |-> "MKV"]
    ELSE IF d.len >= 12 /\ Slice(d, 0, 4) = B_RIFF /\ Slice(d, 8, 12) = B_AVI
    THEN [ok |-> TRUE, format |-> "AVI"]
    ELSE [ok |-> TRUE, format |-> "Unknown"]

\* What mp4parse::read_mp4 finds: an error, or the tracks of the context
\*   track_type  "Video", "Audio" or "Metadata"
\*   tkhd        NoTkhd or the 16.16 fixed-point width and height
\*   duration, timescale   NoTime, or the two values
NoTkhd == [some |-> FALSE, width |-> 0, height |-> 0]
Tkhd(width, height) == [some |-> TRUE, width |-> width, height |-> height]
NoTime == [some |-> FALSE, duration |-> 0, timescale |-> 0]
Time(duration, timescale) == [some |-> TRUE, duration |-> duration, timescale |-> timescale]
Track(track_type, tkhd, time) == [track_type |-> track_type, tkhd |-> tkhd, time |-> time]
Parsed(tracks) == [ok |-> TRUE, tracks |-> tracks]
ParseError(debug) == [ok |-> FALSE, debug |-> debug]

\* the 16.16 value taken as a pixel count without the shift
FixedToPixels_HalvesOnly(v) == v \div 131072

\* tkhd.width >> 16: 16.16 fixed point to integer
FixedToPixels(v) == v \div 65536

\* the loop over context.tracks, from track i on
RECURSIVE Mp4Tracks(_, _, _, _, _, _, _)
Mp4Tracks(tracks, i, video_tracks, audio_tracks, max_width, max_height, max_duration) ==
    IF i > Len(tracks)
    THEN IF video_tracks = 0
         THEN Err("VideoValidationError", "No video tracks found in MP4")
         ELSE VideoMetadata("MP4", max_width, max_height, max_duration,
                            video_tracks, audio_tracks)
    ELSE LET track == tracks[i]
             width == FixedToPixels(track.tkhd.width)
             height == FixedToPixels(track.tkhd.height)
             checked == track.time.some /\ track.time.timescale > 0
             duration_secs == IF checked
                              THEN Quotient(track.time.duration, track.time.timescale)
                              ELSE Secs(0, 0, 1)
         IN  IF track.track_type = "Video"
             THEN IF track.tkhd.some /\ width > MAX_VIDEO_WIDTH
                  THEN Err("VideoValidationError",
                           "Video width too large: " \o ToDecimal(width) \o " (max: "
                               \o ToDecimal(MAX_VIDEO_WIDTH) \o ")")
                  ELSE IF track.tkhd.some /\ height > MAX_VIDEO_HEIGHT
                  THEN Err("VideoValidationError",
                           "Video height too large: " \o ToDecimal(height) \o " (max: "
                               \o ToDecimal(MAX_VIDEO_HEIGHT) \o ")")
                  ELSE IF checked /\ ExceedsSecs(duration_secs, MAX_VIDEO_DURATION_SECS)
                  THEN Err("VideoValidationError",
                           "Video too long: " \o Fixed1(duration_secs) \o " seconds (max: "
                               \o ToDecimal(MAX_VIDEO_DURATION_SECS) \o ")")
                  ELSE Mp4Tracks(tracks, i + 1, video_tracks + 1, audio_tracks,
                                 IF track.tkhd.some THEN Max(max_width, width) ELSE max_width,
                                 IF track.tkhd.some THEN Max(max_height, height) ELSE max_height,
                                 IF checked THEN MaxSecs(max_duration, duration_secs)
                                            ELSE max_duration)
             ELSE IF track.track_type = "Audio"
             THEN Mp4Tracks(tracks, i + 1, video_tracks, audio_tracks + 1,
                            max_width, max_height, max_duration)
             ELSE Mp4Tracks(tracks, i + 1, video_tracks, audio_tracks,
                            max_width, max_height, max_duration)

\* validate_mp4_container
validate_mp4_container(context) ==
    IF ~context.ok
    THEN Err("VideoContainerError", "MP4 parsing failed: " \o context.debug)
    ELSE IF Len(context.tracks) > MAX_VIDEO_TRACKS
    THEN Err("VideoValidationError",
             "Too many tracks: " \o ToDecimal(Len(context.tracks)) \o " (max: "
                 \o ToDecimal(MAX_VIDEO_TRACKS) \o ")")
    ELSE Mp4Tracks(context.tracks, 1, 0, 0, 0, 0, Secs(0, 0, 1))

\* What Matroska::open finds: an error, or the track types and info.duration
\* (NoDuration, or a std::time::Duration of secs and nanos)
NoDuration == [some |-> FALSE, secs |-> 0, nanos |-> 0]
Duration(secs, nanos) == [some |-> TRUE, secs |-> secs, nanos |-> nanos]
Matroska(tracks, duration) == [ok |-> TRUE, tracks |-> tracks, duration |-> duration]

\* the number of tracks of a type
RECURSIVE CountTracks(_, _)
CountTracks(tracks, tracktype) ==
    IF tracks = <<>> THEN 0
    ELSE (IF Head(tracks) = tracktype THEN 1 ELSE 0) + CountTracks(Tail(tracks), tracktype)

\* validate_mkv_container: the dimensions are never read, the format is MKV
validate_mkv_container(matroska) ==
    IF ~matroska.ok
    THEN Err("VideoContainerError", "MKV/WebM parsing failed: " \o matroska.debug)
    ELSE LET video_tracks == CountTracks(matroska.tracks, "Video")
             audio_tracks == CountTracks(matroska.tracks, "Audio")
             duration_secs == IF matroska.duration.some
                              THEN Secs(matroska.duration.secs, matroska.duration.nanos,
                                        1000000000)
                              ELSE Secs(0, 0, 1)
         IN  IF video_tracks + audio_tracks > MAX_VIDEO_TRACKS
             THEN Err("VideoValidationError",
                      "Too many tracks: " \o ToDecimal(video_tracks + audio_tracks)
                          \o " (max: " \o ToDecimal(MAX_VIDEO_TRACKS) \o ")")
             ELSE IF video_tracks = 0
             THEN Err("VideoValidationError", "No video tracks found in MKV/WebM")
             ELSE IF ExceedsSecs(duration_secs, MAX_VIDEO_DURATION_SECS)
             THEN Err("VideoValidationError",
                      "MKV video too long: " \o Fixed1(duration_secs) \o " seconds (max: "
                          \o ToDecimal(MAX_VIDEO_DURATION_SECS) \o ")")
             ELSE VideoMetadata("MKV", 0, 0, duration_secs, video_tracks, audio_tracks)

\* An AVI file after its 12-byte RIFF header: a sequence of chunks, each an
\* 8-byte header (id, little-endian size) and a body padded to an even length.
\*   form  the list type of a LIST chunk, whose body is form and the chunks sub
\*   fcc   the stream type of a strh chunk
\*   hdr   the fields of an avih body that the validator reads
NoAviHeader == [duration_microsecs |-> [secs |-> 0, micros |-> 0], width |-> 0, height |-> 0]

\* duration_microsecs is held as secs * 1000000 + micros
AviHeader(secs, micros, width, height) ==
    [duration_microsecs |-> [secs |-> secs, micros |-> micros],
     width |-> width, height |-> height]

Chunk(id, size, form, fcc, hdr, sub) ==
    [id |-> id, size |-> size, form |-> form, fcc |-> fcc, hdr |-> hdr, sub |-> sub]

\* the bytes a chunk takes: header, body and pad byte
ChunkSpan(size) == 8 + size + (IF size % 2 = 1 THEN 1 ELSE 0)

RECURSIVE ChunksLen(_)
ChunksLen(chunks) ==
    IF chunks = <<>> THEN 0
    ELSE ChunkSpan(Head(chunks).size) + ChunksLen(Tail(chunks))

PlainChunk(id, size) == Chunk(id, size, <<>>, <<>>, NoAviHeader, <<>>)
AvihChunk(size, hdr) == Chunk(B_avih, size, <<>>, <<>>, hdr, <<>>)
StrhChunk(fcc) == Chunk(B_strh, 56, <<>>, fcc, NoAviHeader, <<>>)
ListChunk(form, sub) == Chunk(B_LIST, 4 + ChunksLen(sub), form, <<>>, NoAviHeader, sub)

\* the offset in the file of the i-th top-level chunk
ChunkOffset(chunks, i) == 12 + ChunksLen(SubSeq(chunks, 1, i - 1))

\* the chunk whose header is at pos
ChunkAt(chunks, pos) ==
    chunks[CHOOSE i \in 1..Len(chunks) : ChunkOffset(chunks, i) = pos]

\* the bounds test of a chunk, looking at the chunk's header only
ChunkPastEnd_HeaderOnly(pos, chunk_size, len) == pos + 8 > len

\* pos + 8 + chunk_size > data.len()
ChunkPastEnd(pos, chunk_size, len) == pos + 8 + chunk_size > len

\* the test for the main header, without the size
IsAviHeader_AnySize(chunk) == chunk.id = B_avih

\* chunk_id == b"avih" && chunk_size >= 56
IsAviHeader(chunk) == chunk.id = B_avih /\ chunk.size >= 56

\* the while loop of validate_avi_container from offset pos on: the avih
\* header it stops at, if any
RECURSIVE AviWalk(_, _, _)
AviWalk(d, chunks, pos) ==
    IF ~(pos + 8 <= d.len)
    THEN [found_avih |-> FALSE, hdr |-> NoAviHeader]
    ELSE LET chunk == ChunkAt(chunks, pos)
         IN  IF ChunkPastEnd(pos, chunk.size, d.len)
             THEN [found_avih |-> FALSE, hdr |-> NoAviHeader]
             ELSE IF IsAviHeader(chunk)
             THEN [found_avih |-> TRUE, hdr |-> chunk.hdr]
             ELSE AviWalk(d, chunks, pos + ChunkSpan(chunk.size))

\* the number of chunk headers the while loop reads from offset pos on
RECURSIVE AviWalkReads(_, _, _)
AviWalkReads(d, chunks, pos) ==
    IF ~(pos + 8 <= d.len)
    THEN 0
    ELSE LET chunk == ChunkAt(chunks, pos)
         IN  IF ChunkPastEnd(pos, chunk.size, d.len) \/ IsAviHeader(chunk)
             THEN 1
             ELSE 1 + AviWalkReads(d, chunks, pos + ChunkSpan(chunk.size))

\* the iterations of the while loop from offset pos on: the offset of each,
\* the offset after it and the end of the highest range of bytes it reads
\* (the 8-byte chunk header, and the 56-byte slice of a main header)
RECURSIVE AviWalkSteps(_, _, _)
AviWalkSteps(d, chunks, pos) ==
    IF ~(pos + 8 <= d.len)
    THEN <<>>
    ELSE LET chunk == ChunkAt(chunks, pos)
         IN  IF ChunkPastEnd(pos, chunk.size, d.len)
             THEN <<[pos |-> pos, next |-> pos, read_end |-> pos + 8, last |-> TRUE]>>
             ELSE IF IsAviHeader(chunk)
             THEN <<[pos |-> pos, next |-> pos, read_end |-> pos + 8 + 56, last |-> TRUE]>>
             ELSE <<[pos |-> pos, next |-> pos + ChunkSpan(chunk.size),
                     read_end |-> pos + 8, last |-> FALSE]>>
                  \o AviWalkSteps(d, chunks, pos + ChunkSpan(chunk.size))

\* validate_avi_container
validate_avi_container(d, chunks) ==
    IF d.len < 12 \/ Slice(d, 0, 4) # B_RIFF \/ Slice(d, 8, 12) # B_AVI
    THEN Err("VideoValidationError", "Invalid AVI signature")
    ELSE IF U32LE(d.bytes, 4) + 8 # d.len
    THEN Err("VideoValidationError",
             "AVI RIFF size mismatch: declared " \o ToDecimal(U32LE(d.bytes, 4) + 8)
                 \o " bytes, got " \o ToDecimal(d.len) \o " bytes")
    ELSE LET walk == AviWalk(d, chunks, 12)
             width == walk.hdr.width
             height == walk.hdr.height
             duration_secs == Secs(walk.hdr.duration_microsecs.secs,
                                   walk.hdr.duration_microsecs.micros, 1000000)
         IN  IF walk.found_avih /\ width > MAX_VIDEO_WIDTH
             THEN Err("VideoValidationError",
                      "AVI width too large: " \o ToDecimal(width) \o " (max: "
                          \o ToDecimal(MAX_VIDEO_WIDTH) \o ")")
             ELSE IF walk.found_avih /\ height > MAX_VIDEO_HEIGHT
             THEN Err("VideoValidationError",
                      "AVI height too large: " \o ToDecimal(height) \o " (max: "
                          \o ToDecimal(MAX_VIDEO_HEIGHT) \o ")")
             ELSE IF ~walk.found_avih
             THEN Err("VideoValidationError", "No AVI header (avih) found")
             ELSE IF ExceedsSecs(duration_secs, MAX_VIDEO_DURATION_SECS)
             THEN Err("VideoValidationError",
                      "AVI video too long: " \o Fixed1(duration_secs) \o " seconds (max: "
                          \o ToDecimal(MAX_VIDEO_DURATION_SECS) \o ")")
             ELSE VideoMetadata("AVI", width, height, duration_secs, 1, 0)

\* validate_video_container on the bytes d, with what the parsers find in them
validate_video_container(d, context, matroska, chunks) ==
    IF d.len > MAX_VIDEO_FILE_SIZE
    THEN Err("VideoValidationError",
             "Video file too large: " \o ToDecimal(d.len) \o " bytes (max: "
                 \o ToDecimal(MAX_VIDEO_FILE_SIZE) \o ")")
    ELSE IF d.len < 12
    THEN Err("VideoValidationError", "Video file too small")
    ELSE LET format == detect_video_format(d)
         IN  IF ~format.ok THEN format
             ELSE IF format.format = "MP4" THEN validate_mp4_container(context)
             ELSE IF format.format \in {"MKV", "WebM"} THEN validate_mkv_container(matroska)
             ELSE IF format.format = "AVI" THEN validate_avi_container(d, chunks)
             ELSE Err("VideoValidationError",
                      "Unknown or unsupported video container format")

\* the validator validate_video_container hands the bytes to: the match on
\* the detected format
VideoRoute(d) ==
    IF d.len > MAX_VIDEO_FILE_SIZE \/ d.len < 12 THEN "none"
    ELSE LET format == detect_video_format(d)
         IN  IF ~format.ok THEN "none"
             ELSE IF format.format = "MP4" THEN "validate_mp4_container"
             ELSE IF format.format \in {"MKV", "WebM"} THEN "validate_mkv_container"
             ELSE IF format.format = "AVI" THEN "validate_avi_container"
             ELSE "none"

\* the number of chunk headers read by validate_video_container: none unless
\* the input gets to the chunk walk of validate_avi_container
ChunkReads(d, chunks) ==
    IF d.len > MAX_VIDEO_FILE_SIZE \/ d.len < 12 THEN 0
    ELSE IF ~detect_video_format(d).ok THEN 0
    ELSE IF detect_video_format(d).format # "AVI" THEN 0
    ELSE IF U32LE(d.bytes, 4) + 8 # d.len THEN 0
    ELSE AviWalkReads(d, chunks, 12)

\* format!("Video validated: {:?} {}x{} {:.1}s", ...) of decode_video
VideoReport(metadata) ==
    "Video validated: " \o metadata.container_format \o " "
        \o ToDecimal(metadata.width) \o "x" \o ToDecimal(metadata.height) \o " "
        \o Fixed1(metadata.duration_secs) \o "s"

\* decode_video: the validator's error or panic as it is, or the report as
\* bytes; _wasm_path is not used and no decoder is run
decode_video(d, context, matroska, chunks, wasm_path) ==
    LET metadata == validate_video_container(d, context, matroska, chunks)
    IN  IF ~metadata.ok
        THEN Outcome(metadata, <<"validate">>, 0)
        ELSE Outcome([ok |-> TRUE, text |-> VideoReport(metadata)], <<"validate">>, 0)

----------------------------------------------------------------------------
(* Video container validation: the inputs of the model and the specification *)

Fill(x, n) == [i \in 1..n |-> x]

VideoLens == {0, 11, 12, 19, 20, 49, 50, 64, MAX_VIDEO_FILE_SIZE, MAX_VIDEO_FILE_SIZE + 1}

EbmlSigs == {B_EBML, B_EBML \o Zeros(4) \o B_webm, B_EBML \o Zeros(16) \o B_webm}

VideoSigs ==
    {FtypHead(B_isom), FtypHead(B_heic), FtypHead(B_avif),
     RiffHead(4, B_WEBP), PNG_SIG, <<>>}
    \cup EbmlSigs

VideoData == {Data(LeadingBytes(sig, len), len) : sig \in VideoSigs, len \in VideoLens}

DefaultTkhd == Tkhd(640 * 65536, 480 * 65536)
DefaultTime == Time(60000, 1000)

Tkhds ==
    {NoTkhd, DefaultTkhd,
     Tkhd(MAX_VIDEO_WIDTH * 65536 + 65535, MAX_VIDEO_HEIGHT * 65536 + 65535),
     Tkhd((MAX_VIDEO_WIDTH + 1) * 65536, 480 * 65536),
     Tkhd(640 * 65536, (MAX_VIDEO_HEIGHT + 1) * 65536),
     Tkhd(4096 * 65536, 2160 * 65536)}

Times ==
    {NoTime, DefaultTime, Time(5000, 0),
     Time(MAX_VIDEO_DURATION_SECS, 1), Time(MAX_VIDEO_DURATION_SECS + 1, 1),
     Time(MAX_VIDEO_DURATION_SECS * 1000 + 1, 1000)}

AudioTrack == Track("Audio", NoTkhd, Time(MAX_VIDEO_DURATION_SECS + 1, 1))
MetadataTrack == Track("Metadata", NoTkhd, NoTime)

LeadTracks ==
    {Track("Video", tkhd, DefaultTime) : tkhd \in Tkhds}
    \cup {Track("Video", DefaultTkhd, time) : time \in Times}
    \cup {AudioTrack, MetadataTrack}

Mp4Contexts ==
    {ParseError("UnexpectedEOF")}
    \cup {Parsed(lead \o Fill(AudioTrack, a) \o Fill(MetadataTrack, m)) :
             lead \in UNION {[1..n -> LeadTracks] : n \in 0..MaxLead},
             a \in 0..MaxFill, m \in 0..1}

Matroskas ==
    {ParseError("Io")}
    \cup {Matroska(Fill("Video", v) \o Fill("Audio", a) \o Fill("Subtitle", t), duration) :
             v \in 0..2, a \in 0..MaxFill, t \in 0..1,
             duration \in {NoDuration, Duration(0, 0),
                           Duration(MAX_VIDEO_DURATION_SECS, 0),
                           Duration(MAX_VIDEO_DURATION_SECS, 1),
                           Duration(MAX_VIDEO_DURATION_SECS + 1, 0)}}

DefaultContext == Parsed(<<Track("Video", DefaultTkhd, DefaultTime)>>)
DefaultMatroska == Matroska(<<"Video">>, Duration(60, 0))

DefaultAviHeader == AviHeader(0, 33333, 640, 480)

AviHeaders ==
    {AviHeader(t[1], t[2], wh[1], wh[2]) :
        t \in {<<0, 33333>>, <<MAX_VIDEO_DURATION_SECS, 0>>, <<MAX_VIDEO_DURATION_SECS, 1>>,
               <<4294, 967295>>},
        wh \in {<<640, 480>>, <<0, 0>>, <<MAX_VIDEO_WIDTH, MAX_VIDEO_HEIGHT>>,
                <<MAX_VIDEO_WIDTH + 1, 480>>, <<640, MAX_VIDEO_HEIGHT + 1>>}}

StreamList(fcc) == ListChunk(B_strl, <<StrhChunk(fcc)>>)

TopChunks ==
    {PlainChunk(B_JUNK, 0), PlainChunk(B_JUNK, 3), PlainChunk(B_JUNK, 4),
     AvihChunk(40, NoAviHeader), AvihChunk(56, DefaultAviHeader),
     ListChunk(B_hdrl, <<AvihChunk(56, DefaultAviHeader), StreamList(B_vids)>>),
     StreamList(B_vids), StreamList(B_auds)}

\* a declared chunk size above every length the validator lets through
HugeChunkSize == 2 * MAX_VIDEO_FILE_SIZE

\* an AVI file of the chunks, with its last cut bytes missing and a RIFF size
\* off by delta
AviFile(chunks, cut, delta) ==
    LET len == 12 + ChunksLen(chunks) - cut
    IN  [data |-> Data(RiffHead(len - 8 + delta, B_AVI), len), chunks |-> chunks]

AviFiles ==
    {AviFile(chunks, cut, delta) :
        chunks \in UNION {[1..n -> TopChunks] : n \in 1..MaxChunks},
        cut \in {0, 1, 8}, delta \in {0, 4}}
    \cup {AviFile(<<AvihChunk(56, hdr)>>, 0, 0) : hdr \in AviHeaders}
    \cup {AviFile(<<PlainChunk(B_JUNK, 3), AvihChunk(57, hdr)>>, 0, 0) : hdr \in AviHeaders}
    \cup {AviFile(<<>>, 0, 0)}
    \cup {AviFile(<<PlainChunk(B_JUNK, size - 20)>>, 0, delta) :
             size \in {MAX_VIDEO_FILE_SIZE, MAX_VIDEO_FILE_SIZE + 2}, delta \in {0, 4}}
    \cup {AviFile(lead \o <<c>>, c.size, 0) :
             lead \in {<<>>, <<PlainChunk(B_JUNK, 3)>>},
             c \in {PlainChunk(B_JUNK, HugeChunkSize), AvihChunk(HugeChunkSize, DefaultAviHeader),
                    AvihChunk(HugeChunkSize + 1, DefaultAviHeader)}}

VideoInput(d, context, matroska, chunks) ==
    [data |-> d, context |-> context, matroska |-> matroska, chunks |-> chunks]

VideoInputs ==
    {VideoInput(d, DefaultContext, DefaultMatroska, <<>>) : d \in VideoData}
    \cup {VideoInput(Data(LeadingBytes(FtypHead(B_isom), 64), 64), context, DefaultMatroska, <<>>) :
             context \in Mp4Contexts}
    \cup {VideoInput(Data(LeadingBytes(sig, len), len), DefaultContext, matroska, <<>>) :
             sig \in EbmlSigs, len \in {12, 64}, matroska \in Matroskas}
    \cup {VideoInput(f.data, DefaultContext, DefaultMatroska, f.chunks) : f \in AviFiles}

NoResult == Err("none", "")

InitVideo ==
    /\ CliIdle
    /\ dec = Idle
    /\ \E input \in VideoInputs :
          vid = [pc |-> "call", input |-> input, out |-> NoResult, video |-> NoOutcome,
                 reads |-> 0]

ValidateVideoContainer ==
    /\ vid.pc = "call"
    /\ vid' = [vid EXCEPT !.pc = "done",
                          !.out = validate_video_container(vid.input.data, vid.input.context,
                                                           vid.input.matroska, vid.input.chunks),
                          !.reads = ChunkReads(vid.input.data, vid.input.chunks)]
    /\ UNCHANGED <<cliVars, dec>>

\* MediaFormat::VideoContainer of HardenedDecoder::decode_with_options
DecodeVideo ==
    /\ vid.pc = "call"
    /\ \E wasm_path \in {"", "decoder.wasm"} :
          vid' = [vid EXCEPT !.pc = "decoded",
                             !.out = validate_video_container(vid.input.data, vid.input.context,
                                                              vid.input.matroska, vid.input.chunks),
                             !.video = decode_video(vid.input.data, vid.input.context,
                                                    vid.input.matroska, vid.input.chunks,
                                                    wasm_path),
                             !.reads = ChunkReads(vid.input.data, vid.input.chunks)]
    /\ UNCHANGED <<cliVars, dec>>

NextVideo ==
    \/ ValidateVideoContainer
    \/ DecodeVideo

SpecVideo == InitVideo /\ [][NextVideo]_vars

----------------------------------------------------------------------------
(* Video container validation: properties *)

VideoDone == vid.pc = "done"

\* the video streams of an AVI file: its stream lists, at the top level or in
\* a header list, whose stream header is of type vids
RECURSIVE VideoStreams(_)
VideoStreams(chunks) ==
    IF chunks = <<>> THEN 0
    ELSE LET c == Head(chunks)
         IN  (IF c.id = B_LIST /\ c.form = B_strl
                  THEN (IF \E i \in 1..Len(c.sub) : c.sub[i].id = B_strh /\ c.sub[i].fcc = B_vids
                        THEN 1 ELSE 0)
              ELSE IF c.id = B_LIST /\ c.form = B_hdrl THEN VideoStreams(c.sub)
              ELSE 0)
             + VideoStreams(Tail(chunks))

\* a well-formed container of one of the three formats without a video track
HasNoVideoTrack(input) ==
    LET d == input.data
    IN  /\ d.len >= 12
        /\ \/ /\ Slice(d, 4, 8) = B_ftyp
              /\ input.context.ok
              /\ \A i \in 1..Len(input.context.tracks) :
                    input.context.tracks[i].track_type # "Video"
           \/ /\ Slice(d, 0, 4) = B_EBML
              /\ input.matroska.ok
              /\ CountTracks(input.matroska.tracks, "Video") = 0
           \/ /\ Slice(d, 0, 4) = B_RIFF
              /\ Slice(d, 8, 12) = B_AVI
              /\ VideoStreams(input.chunks) = 0

\* the metadata meets every enforced quota
WithinVideoQuotas(m) ==
    /\ m.validated
    /\ m.width <= MAX_VIDEO_WIDTH
    /\ m.height <= MAX_VIDEO_HEIGHT
    /\ ~ExceedsSecs(m.duration_secs, MAX_VIDEO_DURATION_SECS)
    /\ m.video_tracks + m.audio_tracks <= MAX_VIDEO_TRACKS
    /\ m.video_tracks >= 1

\* C10: when validate_video_container returns Ok the metadata is validated and
\* within the width, height, duration and track quotas with at least one video
\* track; a container without a video track is always an error.
C10_ValidatedWithinQuotas ==
    VideoDone =>
        /\ vid.out.ok => WithinVideoQuotas(vid.out)
        /\ HasNoVideoTrack(vid.input) => ~vid.out.ok

\* every Ok result is within the quotas, whatever the container
MetadataWithinQuotas == VideoDone /\ vid.out.ok => WithinVideoQuotas(vid.out)

VideoDecoded == vid.pc = "decoded"

\* the metadata that differ from m in at most one track count
Neighbours(m) ==
    {[m EXCEPT !.audio_tracks = a] : a \in 0..MAX_VIDEO_TRACKS}
    \cup {[m EXCEPT !.video_tracks = v] : v \in 1..MAX_VIDEO_TRACKS}

\* C11: decode_video fails exactly when validate_video_container fails, with
\* that same error; when validation succeeds the result is a report of exactly
\* the validated metadata, so two metadata that differ in a track count never
\* have the same report; no codec is called.
C11_VideoReportIsMetadata ==
    VideoDecoded =>
        /\ vid.video.res.ok <=> vid.out.ok
        /\ ~vid.out.ok => vid.video.res = vid.out
        /\ vid.video.calls = 0
        /\ vid.out.ok =>
              /\ vid.video.res.text = VideoReport(vid.out)
              /\ \A m \in Neighbours(vid.out) :
                    VideoReport(m) = vid.video.res.text => m = vid.out

\* decode_video fails exactly when the validator fails, with the same error,
\* and otherwise returns the formatted report
VideoGate ==
    VideoDecoded =>
        /\ vid.video.res.ok <=> vid.out.ok
        /\ ~vid.out.ok => vid.video.res = vid.out
        /\ vid.out.ok => vid.video.res.text = VideoReport(vid.out)
        /\ vid.video.calls = 0

\* C12: container-format detection is total: for every input, those of 12
\* to 49 bytes that start with the EBML signature included, it returns a format
\* or Unknown and the validation that runs it never panics.
C12_DetectionTotal ==
    VideoDone =>
        /\ detect_video_format(vid.input.data).ok
        /\ ~vid.out.ok => vid.out.variant # "Panic"

----------------------------------------------------------------------------
(* Decoders and container validation together *)

InitMedia == InitDecode \/ InitVideo

NextMedia == NextDecode \/ NextVideo

SpecMedia == InitMedia /\ [][NextMedia]_vars

\* a call of decode_webp on a RIFF/WEBP input has returned
WebpCallDone ==
    /\ dec.pc = "done"
    /\ dec.kind = "webp"
    /\ dec.data.len >= 12
    /\ Slice(dec.data, 0, 4) = B_RIFF
    /\ Slice(dec.data, 8, 12) = B_WEBP

\* a call of validate_video_container or decode_video on a RIFF/AVI input has
\* returned
AviCallDone ==
    /\ vid.pc \in {"done", "decoded"}
    /\ vid.input.data.len >= 12
    /\ Slice(vid.input.data, 0, 4) = B_RIFF
    /\ Slice(vid.input.data, 8, 12) = B_AVI

RiffMismatch(d) == U32LE(d.bytes, 4) + 8 # d.len

WebpMismatchError == Err("WebPError", "WebP size mismatch")

AviMismatchError(d) ==
    Err("VideoValidationError",
        "AVI RIFF size mismatch: declared " \o ToDecimal(U32LE(d.bytes, 4) + 8)
            \o " bytes, got " \o ToDecimal(d.len) \o " bytes")

\* the WebP part: the size-mismatch error, and the decoder is not called
WebpMismatchRejected ==
    WebpCallDone /\ RiffMismatch(dec.data) =>
        /\ dec.out.res = WebpMismatchError
        /\ dec.out.calls = 0

\* C13 as stated: every WebP or AVI input whose RIFF size field d has
\* d + 8 # len is answered with the structural (size mismatch) error, without
\* the WebP decoder being called or a chunk header being read.
C13_RiffMismatchStructural ==
    /\ WebpMismatchRejected
    /\ AviCallDone /\ RiffMismatch(vid.input.data) =>
          /\ vid.out = AviMismatchError(vid.input.data)
          /\ vid.reads = 0

\* C13, amended: as stated for WebP; an AVI input with a mismatched RIFF size
\* is answered with an error and no chunk header is read, and the error is the
\* size-mismatch error unless the input is over MAX_VIDEO_FILE_SIZE, when it is
\* the file-size error.
C13_RiffMismatchRejected ==
    /\ WebpMismatchRejected
    /\ AviCallDone /\ RiffMismatch(vid.input.data) =>
          /\ ~vid.out.ok
          /\ vid.reads = 0
          /\ IF vid.input.data.len > MAX_VIDEO_FILE_SIZE
             THEN /\ vid.out.variant = "VideoValidationError"
                  /\ vid.out # AviMismatchError(vid.input.data)
             ELSE vid.out = AviMismatchError(vid.input.data)

\* a mismatched WebP input has been rejected
C13_Witness ==
    /\ WebpCallDone
    /\ RiffMismatch(dec.data)
    /\ dec.out.res = WebpMismatchError

\* the avih headers (size >= 56) met by walking the chunks and the contents of
\* LIST chunks, in file order
RECURSIVE AvihHeaders(_)
AvihHeaders(chunks) ==
    IF chunks = <<>> THEN <<>>
    ELSE LET c == Head(chunks)
         IN  (IF c.id = B_avih /\ c.size >= 56 THEN <<c.hdr>>
              ELSE IF c.id = B_LIST THEN AvihHeaders(c.sub)
              ELSE <<>>)
             \o AvihHeaders(Tail(chunks))

AviHeaderSecs(hdr) ==
    Secs(hdr.duration_microsecs.secs, hdr.duration_microsecs.micros, 1000000)

WithinAviQuotas(hdr) ==
    /\ hdr.width <= MAX_VIDEO_WIDTH
    /\ hdr.height <= MAX_VIDEO_HEIGHT
    /\ ~ExceedsSecs(AviHeaderSecs(hdr), MAX_VIDEO_DURATION_SECS)

\* a RIFF/AVI input with a consistent RIFF size and every chunk whole
WholeAviFile ==
    /\ AviCallDone
    /\ ~RiffMismatch(vid.input.data)
    /\ vid.input.data.len <= MAX_VIDEO_FILE_SIZE
    /\ vid.input.data.len = 12 + ChunksLen(vid.input.chunks)

\* C14: for a RIFF/AVI buffer with a consistent RIFF size in which an avih
\* chunk of size >= 56 is reachable by walking chunks and LIST contents from
\* offset 12, validation returns Ok with the width, height and duration of
\* that header, provided they meet the quotas.
C14_AvihFoundInLists ==
    /\ WholeAviFile
    /\ AvihHeaders(vid.input.chunks) # <<>>
    /\ WithinAviQuotas(Head(AvihHeaders(vid.input.chunks)))
    => /\ vid.out.ok
       /\ vid.out.width = Head(AvihHeaders(vid.input.chunks)).width
       /\ vid.out.height = Head(AvihHeaders(vid.input.chunks)).height
       /\ vid.out.duration_secs = AviHeaderSecs(Head(AvihHeaders(vid.input.chunks)))

\* the input is a minimal MP4: one video track, whose track header has width
\* 0x10000000 and height 0x08700000
Mp4With4096Track ==
    /\ vid.pc \in {"done", "decoded"}
    /\ vid.input.data.len >= 12
    /\ vid.input.data.len <= MAX_VIDEO_FILE_SIZE
    /\ Slice(vid.input.data, 4, 8) = B_ftyp
    /\ vid.input.context.ok
    /\ Len(vid.input.context.tracks) = 1
    /\ vid.input.context.tracks[1].track_type = "Video"
    /\ vid.input.context.tracks[1].tkhd = Tkhd(268435456, 141557760)

\* C15 as stated: the minimal MP4 whose track header is 4096x2160 in 16.16
\* fixed point validates Ok with metadata 4096x2160.
C15_Mp4With4096Validates ==
    Mp4With4096Track => vid.out.ok /\ vid.out.width = 4096 /\ vid.out.height = 2160

\* C15, amended: the width is shifted right by 16 to 4096, which is over
\* MAX_VIDEO_WIDTH, and the file is rejected with the width error.
C15_Mp4With4096Rejected ==
    Mp4With4096Track =>
        vid.out = Err("VideoValidationError", "Video width too large: 4096 (max: 3840)")

\* the minimal MP4 with the 4096x2160 track header has been validated
C15_Witness == Mp4With4096Track /\ ~vid.out.ok

----------------------------------------------------------------------------
(* Still images: properties of the decoded buffer *)

\* a call of decode_gif that got to the first frame has returned
GifFrameDone ==
    /\ dec.pc = "done"
    /\ dec.kind = "gif"
    /\ GifReachesFrame(dec.data, dec.codec)

\* the map of the first frame: the local one if present, otherwise the global
ResolvedMap(g) == IF g.ColorMap.present THEN g.ColorMap ELSE g.SColorMap

HasBadIndex(g) ==
    \E i \in 1..(g.Width * g.Height) : g.RasterBits[i] >= ResolvedMap(g).ColorCount

\* the frame passes the checks made before the pixels are looked at
FramePassesChecks(g) ==
    /\ g.ColorMap.present \/ g.SColorMap.present
    /\ ResolvedMap(g).ColorCount > 0
    /\ ResolvedMap(g).ColorCount <= 256
    /\ ~ResolvedMap(g).ColorsNull
    /\ g.Left + g.Width <= g.SWidth
    /\ g.Top + g.Height <= g.SHeight

\* C16: for the first frame of a GIF the colour map is the local one if
\* present, otherwise the global one, otherwise the decode fails; the map is
\* read only at indices below its colour count, and a pixel whose index is not
\* below it makes the whole decode fail with a GIF error and no pixel buffer.
C16_GifPaletteChecked ==
    GifFrameDone =>
        /\ dec.gif.cmap = (IF dec.codec.ColorMap.present THEN "local"
                           ELSE IF dec.codec.SColorMap.present THEN "global"
                           ELSE "none")
        /\ dec.gif.cmap = "none" => dec.out.res = Err("GifError", "No color map found")
        /\ \A i \in 1..Len(dec.gif.reads) :
              dec.gif.reads[i] < ResolvedMap(dec.codec).ColorCount
        /\ dec.out.res.ok => dec.gif.reads = dec.codec.RasterBits
        /\ HasBadIndex(dec.codec) =>
              /\ ~dec.out.res.ok
              /\ dec.out.res.variant = "GifError"
        /\ HasBadIndex(dec.codec) /\ FramePassesChecks(dec.codec) =>
              \E i \in 1..Len(dec.codec.RasterBits) :
                 dec.out.res.msg =
                    "Color index " \o ToDecimal(dec.codec.RasterBits[i]) \o " out of range (max: "
                        \o ToDecimal(ResolvedMap(dec.codec).ColorCount - 1) \o ")"

\* a frame with a palette index of 7 against a map of fewer colours, after an
\* in-range pixel, has been rejected
C16_Witness ==
    /\ GifFrameDone
    /\ FramePassesChecks(dec.codec)
    /\ dec.gif.reads # <<>>
    /\ \E i \in 1..Len(dec.codec.RasterBits) : dec.codec.RasterBits[i] = 7
    /\ ResolvedMap(dec.codec).ColorCount < 7
    /\ ~dec.out.res.ok

\* the kinds whose decode returns a pixel buffer
ImageKinds == {"png", "jpeg", "gif", "webp", "heif", "svg"}

\* the dimension quota of a kind: its own, or that of the other formats
BufferQuota(k) ==
    IF k \in DOMAIN DimensionQuota THEN DimensionQuota[k] ELSE MAX_WEBP_DIMENSION

\* C17: for every successful image decode of every image kind, the returned
\* buffer is at most max_width x max_height x 4 bytes long for the kind's
\* dimension quota.
C17_BufferWithinQuota ==
    DecodeDone /\ dec.kind \in ImageKinds /\ dec.out.res.ok =>
        dec.out.res.len <= (BufferQuota(dec.kind) * BufferQuota(dec.kind)) * 4

\* the same bound for the kinds whose dimensions decode_png, decode_jpeg,
\* decode_webp and decode_heif limit
BufferWithinCheckedQuota ==
    DecodeDone /\ dec.kind \in DOMAIN DimensionQuota /\ dec.out.res.ok =>
        dec.out.res.len <= (DimensionQuota[dec.kind] * DimensionQuota[dec.kind]) * 4

\* C18: every successful still-image decode returns 8-bit RGBA; for a JPEG of
\* width W and height H the buffer handed on as an Image holds exactly
\* W x H x 4 bytes (four bytes per pixel, the fourth being the alpha byte).
C18_JpegIsRgba ==
    DecodeDone /\ dec.kind = "jpeg" /\ dec.out.res.ok =>
        dec.out.res.len = (dec.codec.w * dec.codec.h) * 4

\* what decode_jpeg returns instead: three bytes per pixel
JpegIsRgb ==
    DecodeDone /\ dec.kind = "jpeg" /\ dec.out.res.ok =>
        dec.out.res.len = (dec.codec.w * dec.codec.h) * 3

----------------------------------------------------------------------------
(* Audio: properties of the decoded samples *)

AudioKinds == {"mp3", "vorbis", "flac"}

\* a call of an audio decoder has returned audio
AudioDecoded == DecodeDone /\ dec.kind \in AudioKinds /\ dec.out.res.ok

\* C19: for every successful decode_mp3, decode_vorbis or decode_flac the
\* returned audio has at most 600 x sample_rate x channels samples, that is, a
\* duration of at most max_duration_seconds.
C19_AudioWithinDuration ==
    AudioDecoded =>
        dec.out.res.len <=
            (MAX_AUDIO_DURATION_SECS * dec.out.res.sample_rate) * dec.out.res.channels

\* what the whole-second comparison of the decoders does ensure: fewer than
\* 601 seconds of samples
AudioUnderNextSecond ==
    AudioDecoded =>
        dec.out.res.len <
            ((MAX_AUDIO_DURATION_SECS + 1) * dec.out.res.sample_rate) * dec.out.res.channels

\* a call of decode_mp3 on an input with the frame sync, within the file
\* size quota, whose first frame declares a sample rate of 192 000 Hz
Mp3At192k ==
    /\ DecodeDone
    /\ dec.kind = "mp3"
    /\ SignatureMatches("mp3", dec.data)
    /\ dec.data.len <= MAX_AUDIO_FILE_SIZE
    /\ Len(dec.codec.frames) >= 1
    /\ dec.codec.frames[1].rate = MAX_SAMPLE_RATE

\* the same with a first frame that declares 192 001 Hz
Mp3Over192k ==
    /\ DecodeDone
    /\ dec.kind = "mp3"
    /\ SignatureMatches("mp3", dec.data)
    /\ dec.data.len <= MAX_AUDIO_FILE_SIZE
    /\ Len(dec.codec.frames) >= 1
    /\ dec.codec.frames[1].rate = MAX_SAMPLE_RATE + 1

SampleRateError == Err("Mp3Error", "Sample rate too high")

\* C20: an MP3 input whose frame header declares a sample rate of 192 000 Hz
\* is rejected with the sample-rate error: the boundary value is rejected.
C20_BoundaryRateRejected ==
    Mp3At192k => dec.out.res = SampleRateError

\* C20, amended: the boundary value 192 000 is accepted; a stream whose frames
\* all declare at most 192 000 Hz is never rejected for its sample rate, and
\* a first frame of 192 001 Hz is.
C20_BoundaryRateAccepted ==
    /\ Mp3At192k /\ (\A i \in 1..Len(dec.codec.frames) :
                        dec.codec.frames[i].rate <= MAX_SAMPLE_RATE) =>
           dec.out.res # SampleRateError
    /\ Mp3Over192k => dec.out.res = SampleRateError

\* an MP3 whose first frame declares 192 000 Hz has been decoded to audio at
\* that rate
C20_Witness ==
    Mp3At192k /\ dec.out.res.ok /\ dec.out.res.sample_rate = MAX_SAMPLE_RATE

----------------------------------------------------------------------------
(* The CLI: the allow-list per input kind *)

\* the base list the specification gives for ordinary images
SpecBaseFilter ==
    {"read", "write", "open", "close", "brk", "mmap", "munmap", "exit_group"}

\* the list the specification gives for an extension
SpecFilter(e) ==
    CASE e = "svg" -> SpecBaseFilter \cup {"mremap"}
      [] e = "mp4" -> SpecBaseFilter \cup {"mremap", "mprotect", "futex", "poll", "sched_yield"}
      [] OTHER     -> SpecBaseFilter

\* C21: the allow-list the child installs is, per input kind, exactly the
\* base list {read, write, open, close, brk, mmap, munmap, exit_group} for
\* ordinary images, the base list and mremap for SVG, and the base list and
\* mremap, mprotect, futex, poll, sched_yield for video.
C21_AllowListPerKind ==
    seccomp.loaded => seccomp.allow = SpecFilter(ext)

\* the lists for SVG and video are the specification's
SvgAndVideoListsAsSpecified ==
    seccomp.loaded /\ ext \in {"svg", "mp4"} => seccomp.allow = SpecFilter(ext)

----------------------------------------------------------------------------
(* Video container validation: detection and routing *)

\* the input has an ftyp box at bytes 4..8 and a HEIF or AVIF brand at 8..12
HeifOrAvifBranded(d) ==
    /\ d.len >= 12
    /\ Slice(d, 4, 8) = B_ftyp
    /\ Slice(d, 8, 12) \in HeifBrands \cup {B_avif}

\* C22: an input whose bytes 4..8 are ftyp is classified as MP4 only when its
\* brand is not a HEIF brand and not AVIF; a HEIF- or AVIF-branded input is
\* never handed to the MP4 validator by validate_video_container.
C22_HeifNotRoutedToMp4 ==
    VideoDone /\ HeifOrAvifBranded(vid.input.data) =>
        /\ VideoRoute(vid.input.data) # "validate_mp4_container"
        /\ ~(vid.out.ok /\ vid.out.container_format = "MP4")

----------------------------------------------------------------------------
(* EXIF validation (formats/exif.rs) *)

MAX_EXIF_SIZE == 1024 * 1024
EXIF_MAGIC == <<69, 120, 105, 102, 0, 0>>

\* u32::from_be_bytes([data[i], data[i+1], data[i+2], data[i+3]])
U32BE(bytes, i) ==
    16777216 * bytes[i + 1] + 65536 * bytes[i + 2] + 256 * bytes[i + 3] + bytes[i + 4]

ExifInfo(byte_order, tag_count, has_gps) ==
    [ok |-> TRUE, byte_order |-> byte_order, tag_count |-> tag_count, has_gps |-> has_gps]

\* ifd0_offset as usize >= tiff_header.len()
IfdOutOfBounds(ifd0_offset, header_len) == ifd0_offset >= header_len

\* validate_exif_with_config with the default configuration
validate_exif(d) ==
    IF d.len = 0
    THEN Err("ExifError", "Empty EXIF data")
    ELSE IF d.len > MAX_EXIF_SIZE
    THEN Err("ExifError", "EXIF data size " \o ToDecimal(d.len) \o " exceeds maximum "
                              \o ToDecimal(MAX_EXIF_SIZE))
    ELSE LET offset == IF StartsWith(d, EXIF_MAGIC) THEN 6 ELSE 0
             header_len == d.len - offset
         IN  IF d.len < offset + 8
             THEN Err("ExifError", "EXIF data too small")
             ELSE IF Slice(d, offset, offset + 4) \notin {TIFF_MAGIC_LE, TIFF_MAGIC_BE}
             THEN Err("ExifError", "Invalid TIFF header in EXIF data")
             ELSE LET byte_order == IF Slice(d, offset, offset + 4) = TIFF_MAGIC_LE
                                    THEN "LittleEndian" ELSE "BigEndian"
                      ifd0_offset == IF byte_order = "LittleEndian"
                                     THEN U32LE(d.bytes, offset + 4)
                                     ELSE U32BE(d.bytes, offset + 4)
                  IN  IF IfdOutOfBounds(ifd0_offset, header_len)
                      THEN Err("ExifError", "IFD0 offset out of bounds")
                      ELSE ExifInfo(byte_order, 0, FALSE)

\* the offset field of a TIFF header in the byte order of its mark
OffsetField(bom, n) ==
    IF bom = TIFF_MAGIC_BE
    THEN <<(n \div 16777216) % 256, (n \div 65536) % 256, (n \div 256) % 256, n % 256>>
    ELSE LE32(n)

ExifMarks == {TIFF_MAGIC_LE, TIFF_MAGIC_BE, <<255, 255, 255, 255>>, <<73, 73, 0, 42>>}

\* an optional Exif marker, a byte-order mark, an offset field and a tail
ExifBlocks ==
    {prefix \o bom \o OffsetField(bom, n) \o Zeros(tail) :
        prefix \in {<<>>, EXIF_MAGIC}, bom \in ExifMarks,
        n \in {0, 7, 8, 9, 10, 134217728}, tail \in 0..MaxExifTail}

\* the blocks, the blocks cut short, the inputs of the unit tests and an
\* input over the size limit
ExifInputs ==
    {Data(b, Len(b)) : b \in ExifBlocks}
    \cup {Data(SubSeq(b, 1, Min(n, Len(b))), Min(n, Len(b))) :
             b \in ExifBlocks, n \in {0, 5, 7, 13}}
    \cup {Data(Zeros(5), 5), Data(EXIF_MAGIC \o [i \in 1..10 |-> 255], 16)}
    \cup {Data(EXIF_MAGIC \o TIFF_MAGIC_LE \o LE32(8) \o Zeros(2), MAX_EXIF_SIZE + 1)}

InitExif ==
    /\ CliIdle
    /\ vid = Idle
    /\ \E d \in ExifInputs : dec = [pc |-> "call", kind |-> "exif", data |-> d, out |-> NoResult]

\* validate_exif(data)
ValidateExif ==
    /\ dec.pc = "call"
    /\ dec.kind = "exif"
    /\ dec' = [dec EXCEPT !.pc = "done", !.out = validate_exif(dec.data)]
    /\ UNCHANGED <<cliVars, vid>>

NextExif == ValidateExif

SpecExif == InitExif /\ [][NextExif]_vars

ExifDone == dec.pc = "done" /\ dec.kind = "exif"

\* where the TIFF header starts: after the Exif marker if there is one
TiffStart(d) == IF StartsWith(d, EXIF_MAGIC) THEN 6 ELSE 0

HasValidMark(d) ==
    /\ d.len >= TiffStart(d) + 8
    /\ Slice(d, TiffStart(d), TiffStart(d) + 4) \in {TIFF_MAGIC_LE, TIFF_MAGIC_BE}

MarkOrder(d) ==
    IF Slice(d, TiffStart(d), TiffStart(d) + 4) = TIFF_MAGIC_LE
    THEN "LittleEndian" ELSE "BigEndian"

\* the IFD0 offset field, read in the byte order of the mark, is 8
HasIfdAt8(d) ==
    Slice(d, TiffStart(d) + 4, TiffStart(d) + 8) =
        OffsetField(Slice(d, TiffStart(d), TiffStart(d) + 4), 8)

\* C23: validate_exif returns Ok with the matching byte order for every input
\* within the size limit that is (optionally the Exif marker followed by) a
\* TIFF header with a valid byte-order mark and an IFD0 offset of 8, also when
\* the data ends right after the 8-byte header; it returns Err for empty
\* input, for fewer than 8 header bytes and for an invalid byte-order mark.
C23_ExifHeaderAccepted ==
    ExifDone =>
        /\ (dec.data.len <= MAX_EXIF_SIZE /\ HasValidMark(dec.data) /\ HasIfdAt8(dec.data)) =>
              dec.out.ok /\ dec.out.byte_order = MarkOrder(dec.data)
        /\ (dec.data.len < TiffStart(dec.data) + 8 \/ ~HasValidMark(dec.data)) => ~dec.out.ok

\* the same header followed by at least one more byte is accepted, and the
\* three rejections hold
ExifHeaderWithTailAccepted ==
    ExifDone =>
        /\ (dec.data.len <= MAX_EXIF_SIZE /\ HasValidMark(dec.data) /\ HasIfdAt8(dec.data)
                /\ dec.data.len > TiffStart(dec.data) + 8) =>
              dec.out.ok /\ dec.out.byte_order = MarkOrder(dec.data)
        /\ (dec.data.len < TiffStart(dec.data) + 8 \/ ~HasValidMark(dec.data)) => ~dec.out.ok

----------------------------------------------------------------------------
(* Native codec sessions *)

NativeKinds == {"png", "jpeg", "gif"}

\* C24: for decode_png, decode_jpeg and decode_gif every native codec session
\* that was created has been destroyed exactly once when the call returns, on
\* every exit path: success, codec error and each validation rejection.
C24_SessionsReleased ==
    DecodeDone /\ dec.kind \in NativeKinds =>
        dec.sessions.destroyed = dec.sessions.created

\* the same for decode_png and decode_gif alone
PngAndGifSessionsReleased ==
    DecodeDone /\ dec.kind \in {"png", "gif"} =>
        dec.sessions.destroyed = dec.sessions.created

----------------------------------------------------------------------------
(* The AVI chunk walk: properties *)

\* a RIFF/AVI input within the file-size quota with a consistent RIFF size:
\* the inputs on which the chunk walk runs
AviWalked ==
    /\ AviCallDone
    /\ vid.input.data.len <= MAX_VIDEO_FILE_SIZE
    /\ ~RiffMismatch(vid.input.data)

\* the i-th top-level chunk has its header inside the buffer and extends past
\* the end, and no main header comes before it
MeetsChunkPastEnd(d, chunks, i) ==
    /\ ChunkOffset(chunks, i) + 8 <= d.len
    /\ ChunkOffset(chunks, i) + 8 + chunks[i].size > d.len
    /\ \A j \in 1..(i - 1) : ~(chunks[j].id = B_avih /\ chunks[j].size >= 56)

\* C25: during the AVI chunk walk, meeting a chunk whose offset + 8 + size
\* exceeds the buffer ends the walk and the validator returns an error, never
\* Ok: no metadata is produced from, or after, such a chunk.
C25_ChunkPastEndIsError ==
    (AviWalked /\ \E i \in 1..Len(vid.input.chunks) :
                     MeetsChunkPastEnd(vid.input.data, vid.input.chunks, i)) =>
        /\ ~vid.out.ok
        /\ vid.pc = "decoded" => ~vid.video.res.ok

\* the walk has met a main header of 56 bytes or more that extends past the
\* buffer, and the call has returned an error
C25_Witness ==
    /\ AviWalked
    /\ \E i \in 1..Len(vid.input.chunks) :
          /\ MeetsChunkPastEnd(vid.input.data, vid.input.chunks, i)
          /\ vid.input.chunks[i].id = B_avih
          /\ vid.input.chunks[i].size >= 56
    /\ ~vid.out.ok

\* the iterations of the chunk walk of the call
WalkSteps == AviWalkSteps(vid.input.data, vid.input.chunks, 12)

\* C26: validate_avi_container terminates for every input: the offset of the
\* chunk walk grows on each iteration by at least 8 (and by one more byte
\* after an odd-sized chunk), and every byte it reads (chunk id, size field,
\* the 56-byte header slice) lies inside the buffer, whatever sizes the chunks
\* declare.
C26_WalkTerminatesInBounds ==
    AviWalked =>
        /\ vid.reads = Len(WalkSteps)
        /\ Len(WalkSteps) <= (vid.input.data.len - 12) \div 8 + 1
        /\ \A i \in 1..Len(WalkSteps) :
              /\ WalkSteps[i].read_end <= vid.input.data.len
              /\ WalkSteps[i].last => i = Len(WalkSteps)
              /\ ~WalkSteps[i].last =>
                    /\ WalkSteps[i].next >= WalkSteps[i].pos + 8
                    /\ WalkSteps[i].next % 2 = WalkSteps[i].pos % 2
        /\ \A i \in 1..(Len(WalkSteps) - 1) :
              /\ WalkSteps[i + 1].pos = WalkSteps[i].next
              /\ WalkSteps[i + 1].pos > WalkSteps[i].pos

\* a walk that has passed an odd-sized chunk and then met a chunk that
\* declares more bytes than any file may hold
C26_Witness ==
    /\ AviWalked
    /\ Len(WalkSteps) >= 2
    /\ vid.input.chunks[1].size % 2 = 1
    /\ \E i \in 1..Len(vid.input.chunks) : vid.input.chunks[i].size >= HugeChunkSize

----------------------------------------------------------------------------
(* The GIF memory reader (lib.rs, decode_gif::gif_read_fn) *)

\* (size as usize).min(available): a negative i32 becomes a usize above every
\* buffer length, so the minimum is available
CastMin(size, available) == IF size < 0 THEN available ELSE Min(size, available)

\* one call of gif_read_fn on a reader of len bytes at position pos, for a
\* request of size bytes: the bytes copied to buf, the value returned and the
\* new position
gif_read_fn(len, pos, size) ==
    LET available == IF len >= pos THEN len - pos ELSE 0
        to_read == CastMin(size, available)
    IN  IF to_read = 0
        THEN [copied |-> 0, ret |-> 0, pos |-> pos]
        ELSE [copied |-> to_read, ret |-> to_read, pos |-> pos + to_read]

\* the sizes the GIF library may ask for
ReadSizes == {-2, -1, 0, 1, 2, MaxReaderLen + 1}

NoRead == [size |-> 0, from |-> 0, copied |-> 0, ret |-> 0]

\* GifMemoryReader { data, len, pos: 0 }
InitGifReader ==
    /\ CliIdle
    /\ vid = Idle
    /\ \E len \in 0..MaxReaderLen :
          dec = [pc |-> "reading", kind |-> "gif_reader", len |-> len, pos |-> 0,
                 calls |-> 0, last |-> NoRead]

\* the GIF library calls the read callback
GifRead ==
    /\ dec.pc = "reading"
    /\ dec.kind = "gif_reader"
    /\ dec.calls < MaxReads
    /\ \E size \in ReadSizes :
          LET r == gif_read_fn(dec.len, dec.pos, size)
          IN  dec' = [dec EXCEPT !.pos = r.pos,
                                 !.calls = dec.calls + 1,
                                 !.last = [size |-> size, from |-> dec.pos,
                                           copied |-> r.copied, ret |-> r.ret]]
    /\ UNCHANGED <<cliVars, vid>>

NextGifReader == GifRead

SpecGifReader == InitGifReader /\ [][NextGifReader]_vars

\* C27: across any sequence of read callbacks on one GIF memory reader the
\* position only grows and never exceeds the buffer length, each call copies
\* and returns exactly min(requested, remaining) bytes from the current
\* position (0 once the buffer is exhausted), and no more bytes are copied
\* than the caller requested, also when the requested size is zero or
\* negative.
C27_ReaderWithinRequest ==
    dec.calls > 0 =>
        /\ dec.pos <= dec.len
        /\ dec.pos >= dec.last.from
        /\ dec.pos = dec.last.from + dec.last.copied
        /\ dec.last.ret = dec.last.copied
        /\ dec.last.copied = Max(0, Min(dec.last.size, dec.len - dec.last.from))
        /\ dec.last.copied <= Max(0, dec.last.size)

\* the same for the calls that request zero or more bytes
ReaderWithinNonNegativeRequest ==
    dec.calls > 0 /\ dec.last.size >= 0 =>
        /\ dec.pos <= dec.len
        /\ dec.pos = dec.last.from + dec.last.copied
        /\ dec.last.ret = dec.last.copied
        /\ dec.last.copied = Min(dec.last.size, dec.len - dec.last.from)

\* the position never exceeds the length and never goes back
ReaderPositionMonotone ==
    dec.calls > 0 => dec.last.from <= dec.pos /\ dec.pos <= dec.len

----------------------------------------------------------------------------
(* Audio: the duration computation *)

\* the decoder reports a sample rate or a channel count of zero for the
\* stream: in the first frame for MP3, in the stream header for Vorbis and FLAC
ReportsZeroFormat(k, c) ==
    IF k = "mp3"
    THEN Len(c.frames) >= 1 /\ (c.frames[1].rate = 0 \/ c.frames[1].ch = 0)
    ELSE c.init /\ Len(c.frames) >= 1 /\ (c.rate = 0 \/ c.ch = 0)

\* C28: the duration computation total_samples / (sample_rate x channels) of
\* decode_mp3, decode_vorbis and decode_flac never divides by zero: a stream
\* for which the decoder reports sample rate 0 or channel count 0 ends in a
\* returned error, not a panic.
C28_NoDivisionByZero ==
    DecodeDone /\ dec.kind \in AudioKinds =>
        /\ dec.out.res.ok \/ dec.out.res.variant # "Panic"
        /\ (SignatureMatches(dec.kind, dec.data) /\ dec.data.len <= MAX_AUDIO_FILE_SIZE
                /\ ReportsZeroFormat(dec.kind, dec.codec)) =>
              ~dec.out.res.ok /\ dec.out.res.variant # "Panic"

\* a stream with a format of zero never yields audio
ZeroFormatYieldsNoAudio ==
    (DecodeDone /\ dec.kind \in AudioKinds /\ ReportsZeroFormat(dec.kind, dec.codec)) =>
        ~dec.out.res.ok

----------------------------------------------------------------------------
(* Video container validation: the format of the metadata *)

\* C29: the container_format of the metadata returned by
\* validate_video_container equals the format detected from the magic bytes
\* (MP4, MKV, WebM or AVI); an EBML input detected as WebM yields metadata
\* with container_format WebM.
C29_FormatIsDetectedFormat ==
    VideoDone /\ vid.out.ok =>
        vid.out.container_format = detect_video_format(vid.input.data).format

\* the same for the inputs that are not detected as WebM
FormatIsDetectedFormatButWebm ==
    (VideoDone /\ vid.out.ok /\ detect_video_format(vid.input.data).format # "WebM") =>
        vid.out.container_format = detect_video_format(vid.input.data).format

----------------------------------------------------------------------------
(* The extended formats *)

\* supported_formats() in a build with the given features
supported_formats(features) ==
    <<"png", "jpeg", "gif", "webp", "heif", "svg", "mp3", "vorbis", "flac", "video">>
    \o (IF "avif" \in features THEN <<"avif">> ELSE <<>>)
    \o (IF "jxl" \in features THEN <<"jpegxl">> ELSE <<>>)
    \o (IF "tiff" \in features THEN <<"tiff">> ELSE <<>>)
    \o (IF "openexr" \in features THEN <<"openexr">> ELSE <<>>)
    \o (IF "icc" \in features THEN <<"icc">> ELSE <<>>)
    \o (IF "exif" \in features THEN <<"exif">> ELSE <<>>)

ExtendedKinds == {"avif", "jxl", "tiff", "exr"}

\* the feature that enables a kind, and the name it is listed under
KindFeature == [avif |-> "avif", jxl |-> "jxl", tiff |-> "tiff", exr |-> "openexr"]
KindListedAs == [avif |-> "avif", jxl |-> "jpegxl", tiff |-> "tiff", exr |-> "openexr"]

Listed(k, features) ==
    \E i \in 1..Len(supported_formats(features)) :
        supported_formats(features)[i] = KindListedAs[k]

\* C30: decode_avif, decode_jxl, decode_tiff and decode_exr return an error
\* for every input, also for inputs that pass their size and magic checks, so
\* dispatching on an extended kind never yields a decoded image although
\* supported_formats() lists the kind when its feature is enabled.
C30_ExtendedKindsNeverDecode ==
    DecodeDone /\ dec.kind \in ExtendedKinds =>
        /\ ~dec.out.res.ok
        /\ dec.out.calls = 0
        /\ Listed(dec.kind, {KindFeature[dec.kind]})

\* an AVIF input within the size limit that carries the ftyp mark has been
\* dispatched and has come back as an error
C30_Witness ==
    /\ DecodeDone
    /\ dec.kind = "avif"
    /\ dec.data.len >= 12
    /\ dec.data.len <= AVIF_MAX_FILE_SIZE
    /\ HasFtypWindow(dec.data)
    /\ ~dec.out.res.ok

=============================================================================
